---- MODULE Spec2Model ----
(***************************************************************************)
(* A model of github.com/m-mizutani/goerr (v2): the error value, its       *)
(* options, the wrap chain and its merge accessors, identity comparison,   *)
(* and the Errors aggregate.                                               *)
(*                                                                         *)
(* The Go heap is the sequence `heap`; an error reference is               *)
(*   0          the nil error interface,                                   *)
(*   NilErrors  a nil *Errors pointer held in an error interface,          *)
(*   1..Len(heap)  a pointer to the object heap[i].                        *)
(* Objects are records of one shape; `kind` says what they are:            *)
(*   "Error"    a *goerr.Error,                                            *)
(*   "Errors"   a *goerr.Errors (aggregate),                               *)
(*   "Foreign"  an error of another package; cause # 0 when it has an      *)
(*              Unwrap() error method (fmt.Errorf("...: %w", cause)).      *)
(* `last` records the last call: its name, arguments, result and the heap  *)
(* it was made on.                                                         *)
(***************************************************************************)
EXTENDS Integers, Sequences, FiniteSets, TLC

VARIABLES heap, last

vars == <<heap, last>>

(* ---- bounds ---- *)
MaxObjs == 3
MaxOpts == 2
MaxErrs == 2
MaxCalls == 2

NilErrors == -1

(* ---- values of type any: a dynamic type and a payload ---- *)
NilAny == [type |-> "nil", val |-> 0]
IntV(n) == [type |-> "int", val |-> n]
StrV(n) == [type |-> "string", val |-> n]

EmptyMap == [k \in {} |-> NilAny]

\* m[key] = value on a Go map
MapSet(m, key, value) ==
    [k \in (DOMAIN m) \cup {key} |-> IF k = key THEN value ELSE m[k]]

SeqsUpTo(S, n) == UNION {[1..k -> S] : k \in 0..n}

(* ---- options: functions that mutate the error under construction ---- *)
Value(key, value) == [opt |-> "Value", key |-> key, val |-> value]
TypedValue(key, value) == [opt |-> "TypedValue", key |-> key.name, val |-> value]
ID(id) == [opt |-> "ID", key |-> id, val |-> NilAny]
Tag(t) == [opt |-> "Tag", key |-> t, val |-> NilAny]

\* the options with one map for both kinds of key: TypedValue writes where
\* Value writes
ApplyOptionOneMap(e, o) ==
    CASE o.opt = "Value" -> [e EXCEPT !.values = MapSet(e.values, o.key, o.val)]
      [] o.opt = "TypedValue" -> [e EXCEPT !.values = MapSet(e.values, o.key, o.val)]
      [] o.opt = "ID" -> [e EXCEPT !.id = o.key]
      [] o.opt = "Tag" -> [e EXCEPT !.tags = e.tags \cup {o.key}]

\* opt(e): the closure each option returns
ApplyOption(e, o) ==
    CASE o.opt = "Value" -> [e EXCEPT !.values = MapSet(e.values, o.key, o.val)]
      [] o.opt = "TypedValue" -> [e EXCEPT !.typedValues = MapSet(e.typedValues, o.key, o.val)]
      [] o.opt = "ID" -> [e EXCEPT !.id = o.key]
      [] o.opt = "Tag" -> [e EXCEPT !.tags = e.tags \cup {o.key}]

RECURSIVE ApplyOptionsReversed(_, _)
\* the loop over the options run from the last option to the first
ApplyOptionsReversed(e, options) ==
    IF options = <<>> THEN e
    ELSE ApplyOption(ApplyOptionsReversed(e, Tail(options)), Head(options))

RECURSIVE ApplyOptions(_, _)
\* for _, opt := range options { opt(e) }
ApplyOptions(e, options) ==
    IF options = <<>> THEN e
    ELSE ApplyOptions(ApplyOption(e, Head(options)), Tail(options))

\* callers(): the frames captured at construction
StackFrames == <<"f1", "f2", "f3">>

newError(options) ==
    ApplyOptions([kind |-> "Error", msg |-> "", id |-> "", st |-> StackFrames,
                  cause |-> 0, values |-> EmptyMap, typedValues |-> EmptyMap,
                  tags |-> {}, errs |-> <<>>], options)

New(msg, options) == [newError(options) EXCEPT !.msg = msg]

Wrap(cause, msg, options) == [newError(options) EXCEPT !.msg = msg, !.cause = cause]

\* an error value of another package: errors.New(msg) when cause = 0,
\* fmt.Errorf(msg + ": %w", cause) otherwise
ForeignError(msg, cause) ==
    [kind |-> "Foreign", msg |-> msg, id |-> "", st |-> <<>>, cause |-> cause,
     values |-> EmptyMap, typedValues |-> EmptyMap, tags |-> {}, errs |-> <<>>]

\* &Errors{errs: errs}
NewErrors(errs) ==
    [kind |-> "Errors", msg |-> "", id |-> "", st |-> <<>>, cause |-> 0,
     values |-> EmptyMap, typedValues |-> EmptyMap, tags |-> {}, errs |-> errs]

Refs(h) == 1..Len(h)
ErrorRefs(h) == {r \in Refs(h) : h[r].kind = "Error"}
ErrorsRefs(h) == {r \in Refs(h) : h[r].kind = "Errors"}
\* every value an `error` argument can take
AnyErr(h) == Refs(h) \cup {0, NilErrors}

(* ---- errors.As(err, &e) with e of type *Error, as Unwrap calls it ---- *)
RECURSIVE AsError(_, _)
RECURSIVE AsErrorFirst(_, _, _)
\* the first member, from index i on, in whose tree errors.As finds a *Error
AsErrorFirst(h, errs, i) ==
    IF i > Len(errs) THEN 0
    ELSE LET e == AsError(h, errs[i])
         IN IF e # 0 THEN e ELSE AsErrorFirst(h, errs, i + 1)

AsError(h, err) ==
    IF err = 0 \/ err = NilErrors THEN 0
    ELSE CASE h[err].kind = "Error" -> err
           [] h[err].kind = "Foreign" -> AsError(h, h[err].cause)
           [] h[err].kind = "Errors" -> AsErrorFirst(h, h[err].errs, 1)

\* Unwrap by a type assertion on err itself, without errors.As
UnwrapDirect(h, err) ==
    IF err # 0 /\ err # NilErrors /\ h[err].kind = "Error" THEN err ELSE 0

\* Unwrap returns unwrapped goerr.Error from err by errors.As; 0 when none
Unwrap(h, err) == AsError(h, err)

\* the maps merged: b's entries over a's
Overlay(a, b) ==
    [k \in (DOMAIN a) \cup (DOMAIN b) |-> IF k \in DOMAIN b THEN b[k] ELSE a[k]]

RECURSIVE mergedValuesCauseWins(_, _)
\* mergedValues with the overlay turned round: the cause's entry survives a collision
mergedValuesCauseWins(h, x) ==
    LET cause == h[x].cause
        err == IF cause # 0 THEN Unwrap(h, cause) ELSE 0
        merged == IF err # 0 THEN mergedValuesCauseWins(h, err) ELSE EmptyMap
    IN Overlay(h[x].values, merged)

RECURSIVE mergedValues(_, _)
mergedValues(h, x) ==
    LET cause == h[x].cause
        err == IF cause # 0 THEN Unwrap(h, cause) ELSE 0
        merged == IF err # 0 THEN mergedValues(h, err) ELSE EmptyMap
    IN Overlay(merged, h[x].values)

\* Error.Values
ErrorValues(h, x) == mergedValues(h, x)

(* ---- typed keys and typed values ---- *)
\* TypedKey[T]{name}: T is "int", "string" or the interface type "any"
NewTypedKey(name, T) == [name |-> name, T |-> T]

\* var zero T
Zero(T) ==
    CASE T = "int" -> IntV(0)
      [] T = "string" -> StrV(0)
      [] T = "any" -> NilAny

\* value.(T): a concrete T must be the dynamic type; an interface T is
\* satisfied by every value but the nil interface
TypeAssert(value, T) ==
    IF T = "any" THEN value.type # "nil" ELSE value.type = T

RECURSIVE getTypedValueFallThrough(_, _, _)
\* getTypedValueFromError that goes on to the cause when the type does not match
getTypedValueFallThrough(h, err, key) ==
    IF /\ key.name \in DOMAIN h[err].typedValues
       /\ TypeAssert(h[err].typedValues[key.name], key.T)
    THEN [value |-> h[err].typedValues[key.name], ok |-> TRUE]
    ELSE LET cause == h[err].cause
             wrappedErr == IF cause # 0 THEN Unwrap(h, cause) ELSE 0
         IN IF wrappedErr # 0
            THEN getTypedValueFallThrough(h, wrappedErr, key)
            ELSE [value |-> Zero(key.T), ok |-> FALSE]

RECURSIVE getTypedValueFromError(_, _, _)
getTypedValueFromError(h, err, key) ==
    IF key.name \in DOMAIN h[err].typedValues
    THEN LET value == h[err].typedValues[key.name]
         IN IF TypeAssert(value, key.T)
            THEN [value |-> value, ok |-> TRUE]
            ELSE [value |-> Zero(key.T), ok |-> FALSE]
    ELSE LET cause == h[err].cause
             wrappedErr == IF cause # 0 THEN Unwrap(h, cause) ELSE 0
         IN IF wrappedErr # 0
            THEN getTypedValueFromError(h, wrappedErr, key)
            ELSE [value |-> Zero(key.T), ok |-> FALSE]

GetTypedValue(h, err, key) ==
    LET e == Unwrap(h, err)
    IN IF e # 0 THEN getTypedValueFromError(h, e, key)
       ELSE [value |-> Zero(key.T), ok |-> FALSE]

\* Is without the comparison of the two ids: a receiver with an ID matches
\* every goerr error
ErrorIsNoCompare(h, x, target) ==
    LET err == AsError(h, target)
    IN IF err # 0 /\ h[x].id # "" THEN TRUE ELSE x = target

\* Is without the x.id # "" test: any two errors with equal ids match
ErrorIsAnyID(h, x, target) ==
    LET err == AsError(h, target)
    IN IF err # 0 /\ h[x].id = h[err].id THEN TRUE ELSE x = target

\* Error.Is: errors.As(target, &err), then the ids, then x == target
ErrorIs(h, x, target) ==
    LET err == AsError(h, target)
    IN IF err # 0 /\ h[x].id # "" /\ h[x].id = h[err].id THEN TRUE ELSE x = target

(* ---- Error(): the message of an error value, by its dynamic type ---- *)
RECURSIVE ErrorString(_, _)
RECURSIVE JoinErrors(_, _, _)

\* Error.Error with the separator written without its space
ErrorErrorNoSpace(h, x) ==
    IF h[x].cause = 0 THEN h[x].msg
    ELSE h[x].msg \o ":" \o ErrorString(h, h[x].cause)

\* Error.Error: fmt.Sprintf("%s: %v", x.msg, x.cause.Error())
ErrorError(h, x) ==
    IF h[x].cause = 0 THEN h[x].msg
    ELSE h[x].msg \o ": " \o ErrorString(h, h[x].cause)

\* strings.Join(messages, "\n") over the members from index i on
JoinErrors(h, errs, i) ==
    IF i = Len(errs) THEN ErrorString(h, errs[i])
    ELSE ErrorString(h, errs[i]) \o "\n" \o JoinErrors(h, errs, i + 1)

\* Errors.Error that gives the message of the first member only
ErrorsErrorFirstOnly(h, x) ==
    IF x = NilErrors \/ Len(h[x].errs) = 0 THEN ""
    ELSE ErrorString(h, h[x].errs[1])

\* Errors.Error
ErrorsError(h, x) ==
    IF x = NilErrors \/ Len(h[x].errs) = 0 THEN ""
    ELSE IF Len(h[x].errs) = 1 THEN ErrorString(h, h[x].errs[1])
    ELSE JoinErrors(h, h[x].errs, 1)

\* err.Error() on a non-nil error interface
ErrorString(h, err) ==
    IF err = NilErrors THEN ErrorsError(h, err)
    ELSE CASE h[err].kind = "Error" -> ErrorError(h, err)
           [] h[err].kind = "Errors" -> ErrorsError(h, err)
           [] h[err].kind = "Foreign" ->
                IF h[err].cause = 0 THEN h[err].msg
                ELSE h[err].msg \o ": " \o ErrorString(h, h[err].cause)

(* ---- the aggregate: Join and Append ---- *)
\* Join's loop: the entries that are not the nil interface, in order
Filtered(errs) == SelectSeq(errs, LAMBDA err : err # 0)

RECURSIVE AppendLoopNested(_, _, _, _)
\* Append's loop without the flattening: every non-nil entry becomes a member
AppendLoopNested(h, base, errs, i) ==
    IF i > Len(errs) THEN [heap |-> h, panic |-> FALSE]
    ELSE IF errs[i] = 0 THEN AppendLoopNested(h, base, errs, i + 1)
    ELSE AppendLoopNested([h EXCEPT ![base].errs = Append(@, errs[i])], base, errs, i + 1)

RECURSIVE AppendLoop(_, _, _, _)
\* Append's loop from entry i on, over the heap h in which base is allocated:
\* the heap it leaves, and whether it panicked (nestedErrs.errs on a nil *Errors)
AppendLoop(h, base, errs, i) ==
    IF i > Len(errs) THEN [heap |-> h, panic |-> FALSE]
    ELSE LET err == errs[i]
         IN IF err = 0 THEN AppendLoop(h, base, errs, i + 1)
            ELSE IF err = NilErrors THEN [heap |-> h, panic |-> TRUE]
            ELSE IF h[err].kind = "Errors"
            THEN AppendLoop([h EXCEPT ![base].errs = @ \o h[err].errs], base, errs, i + 1)
            ELSE AppendLoop([h EXCEPT ![base].errs = Append(@, err)], base, errs, i + 1)

\* Join that flattens as Append does: an aggregate entry gives its members
JoinFlattening(h, errs) ==
    IF Filtered(errs) = <<>> THEN [heap |-> h, res |-> NilErrors]
    ELSE [heap |-> AppendLoop(Append(h, NewErrors(<<>>)), Len(h) + 1, errs, 1).heap,
          res |-> Len(h) + 1]

\* Join without the return of nil for an empty filtered list
JoinAlwaysAllocates(h, errs) ==
    [heap |-> Append(h, NewErrors(Filtered(errs))), res |-> Len(h) + 1]

\* Join(errs...) on the heap h: the heap it leaves and the pointer it returns
Join(h, errs) ==
    IF Filtered(errs) = <<>> THEN [heap |-> h, res |-> NilErrors]
    ELSE [heap |-> Append(h, NewErrors(Filtered(errs))), res |-> Len(h) + 1]

\* Errors.Len
ErrorsLen(h, x) == IF x = NilErrors THEN 0 ELSE Len(h[x].errs)

(* ---- the methods of the aggregate ---- *)
\* A slice result is the sequence of its elements; the nil slice is <<>>.

\* Errors.IsEmpty
ErrorsIsEmpty(h, x) == x = NilErrors \/ Len(h[x].errs) = 0

\* Errors.Unwrap: nil, or a copy of the members
ErrorsUnwrap(h, x) == IF x = NilErrors \/ Len(h[x].errs) = 0 THEN <<>> ELSE h[x].errs

\* Errors.Errors: nil, or a copy of the members
ErrorsErrors(h, x) == IF x = NilErrors \/ Len(h[x].errs) = 0 THEN <<>> ELSE h[x].errs

\* ErrorOrNil without the x == nil test: the nil pointer comes back wrapped in
\* an error interface that is not nil
ErrorsErrorOrNilTypedNil(h, x) ==
    IF x # NilErrors /\ Len(h[x].errs) = 0 THEN 0 ELSE x

\* Errors.ErrorOrNil: the nil interface, or x as an error
ErrorsErrorOrNil(h, x) ==
    IF x = NilErrors \/ Len(h[x].errs) = 0 THEN 0 ELSE x

RECURSIVE errors_is(_, _, _)
RECURSIVE ErrorsIs(_, _, _)

\* errors.Is(err, target)
errors_Is(h, err, target) ==
    IF err = 0 \/ target = 0 THEN err = target ELSE errors_is(h, err, target)

\* the loop of errors.Is: err == target, then err.Is(target), then Unwrap
errors_is(h, err, target) ==
    IF err = target THEN TRUE
    ELSE IF err = NilErrors THEN FALSE
    ELSE CASE h[err].kind = "Error" ->
                \/ ErrorIs(h, err, target)
                \/ h[err].cause # 0 /\ errors_is(h, h[err].cause, target)
           [] h[err].kind = "Foreign" ->
                h[err].cause # 0 /\ errors_is(h, h[err].cause, target)
           [] h[err].kind = "Errors" ->
                \/ ErrorsIs(h, err, target)
                \/ \E i \in 1..Len(h[err].errs) : errors_is(h, h[err].errs[i], target)

\* Is that asks the first member only
ErrorsIsFirstOnly(h, x, target) ==
    /\ x # NilErrors
    /\ Len(h[x].errs) > 0
    /\ errors_Is(h, h[x].errs[1], target)

\* Errors.Is
ErrorsIs(h, x, target) ==
    IF x = NilErrors THEN FALSE
    ELSE \E i \in 1..Len(h[x].errs) : errors_Is(h, h[x].errs[i], target)

RECURSIVE errors_AsErrors(_, _)
\* errors.As(err, &e) with e of type *Errors: whether it matched, and e
errors_AsErrors(h, err) ==
    IF err = 0 THEN [ok |-> FALSE, e |-> NilErrors]
    ELSE IF err = NilErrors THEN [ok |-> TRUE, e |-> NilErrors]
    ELSE IF h[err].kind = "Errors" THEN [ok |-> TRUE, e |-> err]
    ELSE errors_AsErrors(h, h[err].cause)

\* AsErrors: the nil pointer when errors.As finds none
AsErrors(h, err) == errors_AsErrors(h, err).e

RECURSIVE AsErrorsFirst(_, _, _)
\* the loop of Errors.As for a target of type **Errors, from member i on
AsErrorsFirst(h, errs, i) ==
    IF i > Len(errs) THEN [ok |-> FALSE, e |-> NilErrors]
    ELSE IF errors_AsErrors(h, errs[i]).ok THEN errors_AsErrors(h, errs[i])
    ELSE AsErrorsFirst(h, errs, i + 1)

\* the targets As is called with: a pointer to a *Error variable, a pointer to
\* a *Errors variable, and the nil interface, on which errors.As panics
AsTargets == {"**Error", "**Errors", "nil"}

\* Errors.As: what it returns, what it left in *target (0: as it was), and
\* whether errors.As panicked
ErrorsAs(h, x, target) ==
    IF x = NilErrors \/ Len(h[x].errs) = 0
    THEN [ok |-> FALSE, e |-> 0, panic |-> FALSE]
    ELSE CASE target = "nil" -> [ok |-> FALSE, e |-> 0, panic |-> TRUE]
           [] target = "**Error" ->
                [ok |-> AsErrorFirst(h, h[x].errs, 1) # 0,
                 e |-> AsErrorFirst(h, h[x].errs, 1), panic |-> FALSE]
           [] target = "**Errors" ->
                [ok |-> AsErrorsFirst(h, h[x].errs, 1).ok,
                 e |-> IF AsErrorsFirst(h, h[x].errs, 1).ok
                       THEN AsErrorsFirst(h, h[x].errs, 1).e ELSE 0,
                 panic |-> FALSE]

RECURSIVE mergedTags(_, _)
\* Error.mergedTags
mergedTags(h, x) ==
    LET cause == h[x].cause
        err == IF cause # 0 THEN Unwrap(h, cause) ELSE 0
        merged == IF err # 0 THEN mergedTags(h, err) ELSE {}
    IN merged \cup h[x].tags

RECURSIVE mergedTypedValuesCauseWins(_, _)
\* mergedTypedValues in which the entry of the cause survives a collision
mergedTypedValuesCauseWins(h, x) ==
    LET cause == h[x].cause
        err == IF cause # 0 THEN Unwrap(h, cause) ELSE 0
        merged == IF err # 0 THEN mergedTypedValuesCauseWins(h, err) ELSE EmptyMap
    IN Overlay(h[x].typedValues, merged)

RECURSIVE mergedTypedValues(_, _)
\* Error.mergedTypedValues
mergedTypedValues(h, x) ==
    LET cause == h[x].cause
        err == IF cause # 0 THEN Unwrap(h, cause) ELSE 0
        merged == IF err # 0 THEN mergedTypedValues(h, err) ELSE EmptyMap
    IN Overlay(merged, h[x].typedValues)

\* Error.TypedValues
ErrorTypedValues(h, x) == mergedTypedValues(h, x)

\* Error.Tags: the values of the merged tags, each once; the slice is filled
\* in the iteration order of a map, so the result is given as a set
ErrorTags(h, x) == mergedTags(h, x) \cup h[x].tags

\* Values(err) with a type assertion on err in place of Unwrap
ValuesNoUnwrap(h, err) ==
    IF UnwrapDirect(h, err) # 0 THEN ErrorValues(h, UnwrapDirect(h, err)) ELSE EmptyMap

\* Values(err): the nil map when Unwrap finds no goerr error
Values(h, err) ==
    IF Unwrap(h, err) # 0 THEN ErrorValues(h, Unwrap(h, err)) ELSE EmptyMap

\* Tags(err): nil when Unwrap finds no goerr error
Tags(h, err) ==
    IF Unwrap(h, err) # 0 THEN ErrorTags(h, Unwrap(h, err)) ELSE {}

\* Error.HasTag
ErrorHasTag(h, x, tag) == tag \in mergedTags(h, x)

RECURSIVE HasTag(_, _, _)
RECURSIVE ErrorsHasTag(_, _, _)
\* HasTag(err, tag): the aggregate found by AsErrors first, then the Error
\* found by Unwrap
HasTag(h, err, tag) ==
    IF AsErrors(h, err) # NilErrors THEN ErrorsHasTag(h, AsErrors(h, err), tag)
    ELSE IF Unwrap(h, err) # 0 THEN ErrorHasTag(h, Unwrap(h, err), tag)
    ELSE FALSE

\* Errors.HasTag
ErrorsHasTag(h, x, tag) ==
    IF x = NilErrors THEN FALSE
    ELSE \E i \in 1..Len(h[x].errs) : HasTag(h, h[x].errs[i], tag)

\* One write on the fmt.State: io.WriteString(s, str), or fmt.Fprintf(s,
\* format, ...) with an integer, a string or an error (err) as operands
Write(fn, format, int, str, err) ==
    [fn |-> fn, format |-> format, int |-> int, str |-> str, err |-> err]

\* the verbs Format is called with: %+v, %v, %s, %q and one it has no case for
Verbs == {"+v", "v", "s", "q", "d"}

\* Errors.Format: the writes it makes, in order
ErrorsFormat(h, x, verb) ==
    IF x = NilErrors THEN <<>>
    ELSE CASE verb = "+v" ->
                <<Write("Fprintf", "Errors (%d):\n", Len(h[x].errs), "", 0)>> \o
                [i \in 1..Len(h[x].errs) |->
                    Write("Fprintf", "  [%d] %+v\n", i - 1, "", h[x].errs[i])]
           [] verb \in {"v", "s"} ->
                <<Write("WriteString", "", 0, ErrorsError(h, x), 0)>>
           [] verb = "q" ->
                <<Write("Fprintf", "%q", 0, ErrorsError(h, x), 0)>>
           [] OTHER -> <<>>

\* whether a write puts a byte on the output: every Fprintf of Format does,
\* io.WriteString does unless the string is empty
Written(w) == w.fn = "Fprintf" \/ w.str # ""

\* the output of a sequence of writes: those that put something out
Output(writes) == SelectSeq(writes, Written)

\* Errors.MarshalJSON: the bytes "null", or the ErrorsJSON value it hands to
\* json.Marshal, whose elements are the Printable of the Error found in the
\* member, the member's own MarshalJSON bytes, or the member's message
ErrorsMarshalJSON(h, x) ==
    IF x = NilErrors THEN [null |-> TRUE, errors |-> <<>>]
    ELSE [null |-> FALSE,
          errors |-> [i \in 1..Len(h[x].errs) |->
              LET err == h[x].errs[i]
              IN IF Unwrap(h, err) # 0
                 THEN [as |-> "Printable", err |-> Unwrap(h, err), str |-> ""]
                 ELSE IF err = NilErrors \/ h[err].kind = "Errors"
                 THEN [as |-> "RawMessage", err |-> err, str |-> ""]
                 ELSE [as |-> "string", err |-> 0, str |-> ErrorString(h, err)]]]

\* Errors.LogValue: slog.AnyValue(nil), or the group of the count and, under
\* the member's index, the member's LogValue or its message
ErrorsLogValue(h, x) ==
    IF x = NilErrors THEN [nil |-> TRUE, count |-> 0, errors |-> <<>>]
    ELSE [nil |-> FALSE, count |-> Len(h[x].errs),
          errors |-> [i \in 1..Len(h[x].errs) |->
              LET err == h[x].errs[i]
              IN IF err = NilErrors \/ h[err].kind \in {"Error", "Errors"}
                 THEN [key |-> i - 1, as |-> "LogValue", err |-> err, str |-> ""]
                 ELSE [key |-> i - 1, as |-> "string", err |-> 0,
                       str |-> ErrorString(h, err)]]]

(* ---- the calls ---- *)
\* A call is recorded with the heap it was made on. The calls that construct
\* or change an object are "step"s; the others are "probe"s: a probe reads the
\* heap and leaves it as it is, so a run is followed up to its first probe (a
\* run that goes on after a probe reaches no heap that the run without the
\* probe does not reach).
Call(kind, op, args, res) ==
    [kind |-> kind, op |-> op, args |-> args, res |-> res, panic |-> FALSE,
     pre |-> heap, n |-> last.n + 1]

Running == last.kind = "step"

\* room for one more object
CanAlloc == Running /\ Len(heap) < MaxObjs

\* a constructor: the fresh object is heap'[Len(heap) + 1]
Alloc(op, args, obj) ==
    /\ heap' = Append(heap, obj)
    /\ last' = Call("step", op, args, Len(heap) + 1)

\* a call that returns res and assigns nothing
Read(op, args, res) ==
    /\ last' = Call("probe", op, args, res)
    /\ UNCHANGED heap

Init ==
    /\ heap = <<>>
    /\ last = [kind |-> "step", op |-> "init", args |-> <<>>, res |-> 0,
               panic |-> FALSE, pre |-> <<>>, n |-> 0]

(* ---- string-keyed values along a chain of goerr errors ---- *)
ValueKeys == {"k1", "k2"}
ValueOpts == {Value("k1", IntV(1)), Value("k1", IntV(2)), Value("k2", IntV(1))}

NewV ==
    /\ CanAlloc
    /\ \E opts \in SeqsUpTo(ValueOpts, MaxOpts) :
           Alloc("New", <<"m">>, New("m", opts))

WrapV ==
    /\ CanAlloc
    /\ \E cause \in ErrorRefs(heap) \cup {0}, opts \in SeqsUpTo(ValueOpts, MaxOpts) :
           Alloc("Wrap", <<cause, "m">>, Wrap(cause, "m", opts))

ValuesV ==
    /\ Running
    /\ \E x \in ErrorRefs(heap) : Read("Values", <<x>>, ErrorValues(heap, x))

NextV == NewV \/ WrapV \/ ValuesV

SpecV == Init /\ [][NextV]_vars

RECURSIVE CauseChain(_, _)
\* x, its cause, the cause of its cause, ...: outermost first
CauseChain(h, x) ==
    IF x = 0 \/ x = NilErrors THEN <<>> ELSE <<x>> \o CauseChain(h, h[x].cause)

\* the positions of the chain whose node sets key k locally
Setters(h, chain, k) == {i \in 1..Len(chain) : k \in DOMAIN h[chain[i]].values}

Min(S) == CHOOSE m \in S : \A n \in S : m <= n

\* C1: Values() of the outermost error of a chain of goerr errors built by New
\* and Wrap holds key k exactly when some node of the chain sets k, and then
\* with the value of the outermost node that sets it.
C1_MergeLaw ==
    last.op = "Values" =>
        LET chain == CauseChain(heap, last.args[1])
        IN \A k \in ValueKeys :
            LET s == Setters(heap, chain, k)
            IN /\ (k \in DOMAIN last.res) <=> (s # {})
               /\ s # {} => last.res[k] = heap[chain[Min(s)]].values[k]

\* a chain of three whose outermost and innermost nodes set k1 to different
\* values, with k2 set by the middle node only
C1_Witness ==
    /\ last.op = "Values"
    /\ LET chain == CauseChain(heap, last.args[1])
       IN /\ Len(chain) = 3
          /\ Setters(heap, chain, "k1") = {1, 3}
          /\ heap[chain[1]].values["k1"] # heap[chain[3]].values["k1"]
          /\ Setters(heap, chain, "k2") = {2}
          /\ last.res = [k \in ValueKeys |->
                IF k = "k1" THEN heap[chain[1]].values["k1"] ELSE IntV(1)]

(* ---- identity: errors with and without an ID, compared by Is ---- *)
IDOpts == {ID("X"), ID("Y")}
Msgs == {"a", "b"}

NewI ==
    /\ CanAlloc
    /\ \E msg \in Msgs, opts \in SeqsUpTo(IDOpts, MaxOpts) :
           Alloc("New", <<msg>>, New(msg, opts))

WrapI ==
    /\ CanAlloc
    /\ \E cause \in ErrorRefs(heap) \cup {0}, opts \in SeqsUpTo(IDOpts, MaxOpts) :
           Alloc("Wrap", <<cause, "w">>, Wrap(cause, "w", opts))

IsI ==
    /\ Running
    /\ \E a \in ErrorRefs(heap), b \in ErrorRefs(heap) :
           Read("Is", <<a, b>>, ErrorIs(heap, a, b))

NextI == NewI \/ WrapI \/ IsI

SpecI == Init /\ [][NextI]_vars

\* C2: for goerr errors a and b, a.Is(b) holds when both carry the same
\* non-empty ID; when a's ID is empty or the IDs differ it holds only when a
\* and b are the same instance. So errors without ID never match each other,
\* and every error matches itself.
C2_IdentityEquality ==
    last.op = "Is" =>
        LET a == last.args[1]
            b == last.args[2]
        IN /\ (heap[a].id # "" /\ heap[a].id = heap[b].id) => last.res = TRUE
           /\ (heap[a].id = "" \/ heap[a].id # heap[b].id) => (last.res = (a = b))
           /\ (a = b) => last.res = TRUE

\* two distinct errors with the same ID, different messages and different
\* causes are found equal
C2_Witness ==
    /\ last.op = "Is"
    /\ last.args[1] # last.args[2]
    /\ heap[last.args[1]].id = "X"
    /\ heap[last.args[2]].id = "X"
    /\ heap[last.args[1]].msg # heap[last.args[2]].msg
    /\ heap[last.args[1]].cause # heap[last.args[2]].cause
    /\ last.res = TRUE

(* ---- typed values: one name, keys of three types ---- *)
KeyTypes == {"int", "string", "any"}
TypedKeys == {NewTypedKey("n", T) : T \in KeyTypes}

\* the values a caller can pass to TV with a key of type T
ValuesOf(T) ==
    CASE T = "int" -> {IntV(1)}
      [] T = "string" -> {StrV(1)}
      [] T = "any" -> {IntV(1), StrV(1), NilAny}

TypedOpts == UNION {{TypedValue(k, v) : v \in ValuesOf(k.T)} : k \in TypedKeys}

NewT ==
    /\ CanAlloc
    /\ \E opts \in SeqsUpTo(TypedOpts, MaxOpts) :
           Alloc("New", <<"m">>, New("m", opts))

WrapT ==
    /\ CanAlloc
    /\ \E cause \in Refs(heap) \cup {0}, opts \in SeqsUpTo(TypedOpts, MaxOpts) :
           Alloc("Wrap", <<cause, "m">>, Wrap(cause, "m", opts))

ForeignT ==
    /\ CanAlloc
    /\ \E cause \in Refs(heap) \cup {0} :
           Alloc("Foreign", <<"f", cause>>, ForeignError("f", cause))

GetTypedValueT ==
    /\ Running
    /\ \E err \in Refs(heap) \cup {0}, key \in TypedKeys :
           Read("GetTypedValue", <<err, key>>, GetTypedValue(heap, err, key))

NextT == NewT \/ WrapT \/ ForeignT \/ GetTypedValueT

SpecT == Init /\ [][NextT]_vars

\* the goerr errors of a chain, outermost first
GoerrChain(h, err) == SelectSeq(CauseChain(h, err), LAMBDA r : h[r].kind = "Error")

\* the positions of the chain whose node holds a typed value under name
TypedSetters(h, chain, name) ==
    {i \in 1..Len(chain) : name \in DOMAIN h[chain[i]].typedValues}

\* v is a value of the static type T
OfType(v, T) == v.type = T \/ (T = "any" /\ v.type # "nil")

\* C3: GetTypedValue stops at the outermost node of the chain whose typed
\* values contain the key's name: a value of the key's type there is returned
\* with true; a value of another type there gives (zero value, false), whatever
\* deeper nodes hold under that name.
C3_TypeConflictShortCircuit ==
    last.op = "GetTypedValue" =>
        LET key == last.args[2]
            chain == GoerrChain(heap, last.args[1])
            s == TypedSetters(heap, chain, key.name)
        IN s # {} =>
            LET v == heap[chain[Min(s)]].typedValues[key.name]
            IN IF OfType(v, key.T)
               THEN last.res = [value |-> v, ok |-> TRUE]
               ELSE last.res = [value |-> Zero(key.T), ok |-> FALSE]

\* the base holds a string under the name and its wrapper an int: the lookup
\* with the string key finds nothing
C3_Witness ==
    /\ last.op = "GetTypedValue"
    /\ last.args[2] = NewTypedKey("n", "string")
    /\ LET chain == GoerrChain(heap, last.args[1])
       IN /\ Len(chain) = 2
          /\ TypedSetters(heap, chain, "n") = {1, 2}
          /\ heap[chain[1]].typedValues["n"] = IntV(1)
          /\ heap[chain[2]].typedValues["n"] = StrV(1)
    /\ last.res = [value |-> StrV(0), ok |-> FALSE]

\* C4: GetTypedValue(New(msg, TV(k, v)), k) returns (v, true) for every typed
\* key k and value v; for a name set nowhere in the chain, for a nil error and
\* for a chain without goerr error it returns (zero value, false).
C4_RoundTripAndMiss ==
    last.op = "GetTypedValue" =>
        LET err == last.args[1]
            key == last.args[2]
            chain == GoerrChain(heap, err)
        IN /\ ( /\ err \in ErrorRefs(heap)
                /\ heap[err].cause = 0
                /\ DOMAIN heap[err].typedValues = {key.name}
                /\ heap[err].typedValues[key.name] \in ValuesOf(key.T) )
              => last.res = [value |-> heap[err].typedValues[key.name], ok |-> TRUE]
           /\ TypedSetters(heap, chain, key.name) = {}
              => last.res = [value |-> Zero(key.T), ok |-> FALSE]

(* ---- messages along a chain of goerr and foreign errors ---- *)
NewM ==
    /\ CanAlloc
    /\ \E msg \in Msgs : Alloc("New", <<msg>>, New(msg, <<>>))

WrapM ==
    /\ CanAlloc
    /\ \E cause \in AnyErr(heap), msg \in Msgs :
           Alloc("Wrap", <<cause, msg>>, Wrap(cause, msg, <<>>))

ForeignM ==
    /\ CanAlloc
    /\ \E cause \in Refs(heap) \cup {0} :
           Alloc("Foreign", <<"f", cause>>, ForeignError("f", cause))

ErrorM ==
    /\ Running
    /\ \E x \in ErrorRefs(heap) : Read("Error", <<x>>, ErrorError(heap, x))

NextM == NewM \/ WrapM \/ ForeignM \/ ErrorM

SpecM == Init /\ [][NextM]_vars

RECURSIVE JoinMsgs(_, _, _)
\* the messages of the chain's nodes from position i on, each followed by sep
\* but the last
JoinMsgs(h, chain, i) ==
    IF i > Len(chain) THEN ""
    ELSE IF i = Len(chain) THEN h[chain[i]].msg
    ELSE h[chain[i]].msg \o ": " \o JoinMsgs(h, chain, i + 1)

\* C5: Error() of an error without cause is its message; with a cause it is
\* the message, ": " and the cause's Error(); so a chain of n errors gives its
\* n messages joined by ": ", outermost first; and Wrap with a nil cause gives
\* an error without cause whose Error() is its message.
C5_ChainMessage ==
    /\ last.op = "Error" =>
          LET x == last.args[1]
              chain == CauseChain(heap, x)
          IN /\ heap[x].cause = 0 => last.res = heap[x].msg
             /\ heap[x].cause # 0 =>
                    last.res = heap[x].msg \o ": " \o ErrorString(heap, heap[x].cause)
             /\ heap[chain[Len(chain)]].cause = 0 => last.res = JoinMsgs(heap, chain, 1)
    /\ (last.op = "Wrap" /\ last.args[1] = 0) =>
          /\ heap[last.res].cause = 0
          /\ ErrorError(heap, last.res) = last.args[2]

\* Wrap(Wrap(New("a"), "b"), "a").Error()
C5_Witness ==
    /\ last.op = "Error"
    /\ Len(CauseChain(heap, last.args[1])) = 3
    /\ \A i \in 1..3 : heap[CauseChain(heap, last.args[1])[i]].kind = "Error"
    /\ last.res = "a: b: a"

(* ---- aggregates built by Join and Append over two leaf errors ---- *)
\* The run starts with two errors of another package allocated; every entry
\* of a call is the nil interface or a pointer to an allocated object.
InitA ==
    /\ heap = <<ForeignError("f", 0), ForeignError("g", 0)>>
    /\ last = [kind |-> "step", op |-> "init", args |-> <<>>, res |-> 0,
               panic |-> FALSE, pre |-> <<>>, n |-> 0]

JoinA ==
    /\ last.n < MaxCalls
    /\ \E errs \in SeqsUpTo(Refs(heap) \cup {0}, MaxErrs) :
        /\ last' = Call("step", "Join", <<errs>>, Join(heap, errs).res)
        /\ heap' = Join(heap, errs).heap

AppendA ==
    /\ last.n < MaxCalls
    /\ \E base \in ErrorsRefs(heap) \cup {NilErrors},
          errs \in SeqsUpTo(Refs(heap) \cup {0}, MaxErrs) :
        /\ IF Len(errs) = 0
           THEN /\ UNCHANGED heap
                /\ last' = Call("step", "Append", <<base, errs>>, base)
           ELSE LET b == IF base = NilErrors THEN Len(heap) + 1 ELSE base
                    h0 == IF base = NilErrors THEN Append(heap, NewErrors(<<>>)) ELSE heap
                    r == AppendLoop(h0, b, errs, 1)
                IN /\ heap' = r.heap
                   /\ last' = [Call("step", "Append", <<base, errs>>, IF r.panic THEN 0 ELSE b)
                                  EXCEPT !.panic = r.panic]

NextA == JoinA \/ AppendA

SpecA == InitA /\ [][NextA]_vars

\* the members of the aggregate x in the heap h: none for the nil aggregate
MembersOf(h, x) == IF x = NilErrors THEN <<>> ELSE h[x].errs

\* what an entry of Append is said to contribute, read on the heap h: nothing
\* for nil, its members for an aggregate, itself otherwise
Contribution(h, err) ==
    IF err = 0 THEN <<>>
    ELSE IF h[err].kind = "Errors" THEN h[err].errs
    ELSE <<err>>

RECURSIVE Contributions(_, _, _)
\* the contributions of the entries from position i on, in argument order
Contributions(h, errs, i) ==
    IF i > Len(errs) THEN <<>>
    ELSE Contribution(h, errs[i]) \o Contributions(h, errs, i + 1)

\* the flatten law for the last call, with the base and the entries read as
\* they were when the call was made
FlattenLaw ==
    LET base == last.args[1]
        errs == last.args[2]
        expected == MembersOf(last.pre, base) \o Contributions(last.pre, errs, 1)
    IN /\ MembersOf(heap, last.res) = expected
       /\ ErrorsLen(heap, last.res) =
              ErrorsLen(last.pre, base) + Len(Contributions(last.pre, errs, 1))

\* C6: the members of Append(base, errs...) are the members of base followed,
\* in argument order, by each non-nil entry, an aggregate entry giving its
\* members instead of itself; so Len(result) is Len(base) plus, over the
\* non-nil entries, Len(entry) for an aggregate and 1 otherwise.
C6_AppendFlattenLaw ==
    (last.op = "Append" /\ ~last.panic) => FlattenLaw

\* the same law for the calls in which no entry is the base itself: the base
\* is the only aggregate that Append changes while it reads the entries
C6_FlattenLawUnaliased ==
    (/\ last.op = "Append"
     /\ ~last.panic
     /\ \A i \in 1..Len(last.args[2]) : last.args[2][i] # last.args[1]) => FlattenLaw

\* Append(nil, Join(e1, e2), e3).Len() == 3
C6_FlattenedThree ==
    /\ last.op = "Append"
    /\ last.args[1] = NilErrors
    /\ Len(last.args[2]) = 2
    /\ last.args[2][1] \in ErrorsRefs(last.pre)
    /\ Len(last.pre[last.args[2][1]].errs) = 2
    /\ ErrorsLen(heap, last.res) = 3

\* no member of the aggregate x is an aggregate
Flat(h, x) == \A i \in 1..Len(h[x].errs) : h[h[x].errs[i]].kind # "Errors"

\* C7: after any sequence of Join and Append, no aggregate has an aggregate as
\* a direct member.
C7_FlatnessInvariant == \A x \in ErrorsRefs(heap) : Flat(heap, x)

\* C7, as the code has it: Join does not flatten, the members of its result
\* are its non-nil arguments, aggregates among them; Append keeps flatness,
\* when the base and every aggregate entry have no aggregate as a member then
\* neither has the result.
C7_AppendKeepsFlat ==
    /\ (last.op = "Join" /\ last.res # NilErrors) =>
          heap[last.res].errs = SelectSeq(last.args[1], LAMBDA e : e # 0)
    /\ (last.op = "Append" /\ ~last.panic /\ last.res # NilErrors) =>
          LET base == last.args[1]
              errs == last.args[2]
          IN (/\ base # NilErrors => Flat(last.pre, base)
              /\ \A i \in 1..Len(errs) :
                    (errs[i] # 0 /\ last.pre[errs[i]].kind = "Errors") =>
                        Flat(last.pre, errs[i]))
             => Flat(heap, last.res)

\* Append splices the two members of a flat aggregate entry into the result
C7_Witness ==
    /\ last.op = "Append"
    /\ ~last.panic
    /\ \E i \in 1..Len(last.args[2]) :
          /\ last.args[2][i] \in ErrorsRefs(last.pre)
          /\ Len(last.pre[last.args[2][i]].errs) = 2
          /\ Flat(last.pre, last.args[2][i])
    /\ ErrorsLen(heap, last.res) >= 3
    /\ Flat(heap, last.res)

\* the last call returned an aggregate that is not nil and has no member
ReturnedEmpty ==
    /\ last.res # NilErrors
    /\ heap[last.res].errs = <<>>

\* C8: no call of Join or Append, whatever its arguments, returns an aggregate
\* that is not nil and has zero members.
C8_EmptyAlwaysNil ==
    (last.op \in {"Join", "Append"} /\ ~last.panic) => ~ReturnedEmpty

\* C8, as the code has it: Join returns nil exactly when every entry is nil,
\* and otherwise an aggregate with a member and without a nil member; Append
\* returns an aggregate with zero members exactly when it is given an entry,
\* the base is nil or has no member, and every entry is nil or an aggregate
\* without members.
C8_JoinNeverEmpty ==
    /\ last.op = "Join" =>
          LET errs == last.args[1]
          IN /\ (last.res = NilErrors) <=> (\A i \in 1..Len(errs) : errs[i] = 0)
             /\ last.res # NilErrors =>
                   /\ heap[last.res].errs # <<>>
                   /\ \A i \in 1..Len(heap[last.res].errs) : heap[last.res].errs[i] # 0
    /\ (last.op = "Append" /\ ~last.panic) =>
          LET base == last.args[1]
              errs == last.args[2]
          IN ReturnedEmpty <=>
                /\ MembersOf(last.pre, base) = <<>>
                /\ base = NilErrors => Len(errs) > 0
                /\ \A i \in 1..Len(errs) : Contribution(last.pre, errs[i]) = <<>>

\* Append(nil, nil) returns an aggregate that is not nil and has no member
C8_Witness ==
    /\ last.op = "Append"
    /\ last.args[1] = NilErrors
    /\ last.args[2] = <<0>>
    /\ ReturnedEmpty

(* ---- the methods of the aggregate on the nil pointer and on aggregates ---- *)
\* Errors are made by New, aggregates by Join and by Append on a nil base (the
\* empty aggregate by Append(nil, nil)); then one method is called on the nil
\* pointer or on an aggregate.
NilSafetyOpts == {<<>>, <<Tag("t"), ID("X")>>}
NilSafetyTags == {"t", "u"}
Receivers(h) == ErrorsRefs(h) \cup {NilErrors}

NewN ==
    /\ Running /\ last.n < MaxCalls
    /\ \E opts \in NilSafetyOpts : Alloc("New", <<"m">>, New("m", opts))

JoinN ==
    /\ Running /\ last.n < MaxCalls
    /\ \E errs \in SeqsUpTo(AnyErr(heap), MaxErrs) :
        /\ last' = Call("step", "Join", <<errs>>, Join(heap, errs).res)
        /\ heap' = Join(heap, errs).heap

AppendN ==
    /\ Running /\ last.n < MaxCalls
    /\ \E errs \in SeqsUpTo(Refs(heap) \cup {0}, MaxErrs) :
        IF Len(errs) = 0
        THEN /\ UNCHANGED heap
             /\ last' = Call("step", "Append", <<NilErrors, errs>>, NilErrors)
        ELSE LET b == Len(heap) + 1
                 r == AppendLoop(Append(heap, NewErrors(<<>>)), b, errs, 1)
             IN /\ heap' = r.heap
                /\ last' = [Call("step", "Append", <<NilErrors, errs>>, b)
                               EXCEPT !.panic = r.panic]

LenN ==
    /\ Running
    /\ \E x \in Receivers(heap) : Read("Len", <<x>>, ErrorsLen(heap, x))

IsEmptyN ==
    /\ Running
    /\ \E x \in Receivers(heap) : Read("IsEmpty", <<x>>, ErrorsIsEmpty(heap, x))

ErrorN ==
    /\ Running
    /\ \E x \in Receivers(heap) : Read("Error", <<x>>, ErrorsError(heap, x))

UnwrapN ==
    /\ Running
    /\ \E x \in Receivers(heap) : Read("Unwrap", <<x>>, ErrorsUnwrap(heap, x))

ErrorsN ==
    /\ Running
    /\ \E x \in Receivers(heap) : Read("Errors", <<x>>, ErrorsErrors(heap, x))

ErrorOrNilN ==
    /\ Running
    /\ \E x \in Receivers(heap) : Read("ErrorOrNil", <<x>>, ErrorsErrorOrNil(heap, x))

IsN ==
    /\ Running
    /\ \E x \in Receivers(heap), target \in AnyErr(heap) :
           Read("Is", <<x, target>>, ErrorsIs(heap, x, target))

AsN ==
    /\ Running
    /\ \E x \in Receivers(heap), target \in AsTargets :
        /\ last' = [Call("probe", "As", <<x, target>>, ErrorsAs(heap, x, target).ok)
                       EXCEPT !.panic = ErrorsAs(heap, x, target).panic]
        /\ UNCHANGED heap

HasTagN ==
    /\ Running
    /\ \E x \in Receivers(heap), tag \in NilSafetyTags :
           Read("HasTag", <<x, tag>>, ErrorsHasTag(heap, x, tag))

FormatN ==
    /\ Running
    /\ \E x \in Receivers(heap), verb \in Verbs :
           Read("Format", <<x, verb>>, ErrorsFormat(heap, x, verb))

MarshalJSONN ==
    /\ Running
    /\ \E x \in Receivers(heap) : Read("MarshalJSON", <<x>>, ErrorsMarshalJSON(heap, x))

LogValueN ==
    /\ Running
    /\ \E x \in Receivers(heap) : Read("LogValue", <<x>>, ErrorsLogValue(heap, x))

NextN ==
    \/ NewN \/ JoinN \/ AppendN
    \/ LenN \/ IsEmptyN \/ ErrorN \/ UnwrapN \/ ErrorsN \/ ErrorOrNilN
    \/ IsN \/ AsN \/ HasTagN
    \/ FormatN \/ MarshalJSONN \/ LogValueN

SpecN == Init /\ [][NextN]_vars

\* the heap with an empty aggregate allocated at its end
WithEmpty == Append(heap, NewErrors(<<>>))

\* what the method of the last call gives on the empty aggregate of WithEmpty,
\* for the same arguments; of Format, its output
OnEmpty ==
    LET h == WithEmpty
        e == Len(heap) + 1
    IN CASE last.op = "Len" -> ErrorsLen(h, e)
         [] last.op = "IsEmpty" -> ErrorsIsEmpty(h, e)
         [] last.op = "Error" -> ErrorsError(h, e)
         [] last.op = "Unwrap" -> ErrorsUnwrap(h, e)
         [] last.op = "Errors" -> ErrorsErrors(h, e)
         [] last.op = "ErrorOrNil" -> ErrorsErrorOrNil(h, e)
         [] last.op = "Is" -> ErrorsIs(h, e, last.args[2])
         [] last.op = "As" -> ErrorsAs(h, e, last.args[2]).ok
         [] last.op = "HasTag" -> ErrorsHasTag(h, e, last.args[2])
         [] last.op = "Format" -> Output(ErrorsFormat(h, e, last.args[2]))
         [] last.op = "MarshalJSON" -> ErrorsMarshalJSON(h, e)
         [] last.op = "LogValue" -> ErrorsLogValue(h, e)

\* what the last call gave; of Format, its output
Given == IF last.op = "Format" THEN Output(last.res) ELSE last.res

\* the last call is a method called on the nil pointer
OnNil == last.kind = "probe" /\ last.args[1] = NilErrors

\* the nine methods whose result on no member is listed
Listed == {"Len", "IsEmpty", "Error", "Unwrap", "Errors", "Is", "As", "HasTag", "ErrorOrNil"}

\* the listed results
ListedResult ==
    CASE last.op = "Len" -> last.res = 0
      [] last.op = "IsEmpty" -> last.res = TRUE
      [] last.op = "Error" -> last.res = ""
      [] last.op \in {"Unwrap", "Errors"} -> last.res = <<>>
      [] last.op \in {"Is", "As", "HasTag"} -> last.res = FALSE
      [] last.op = "ErrorOrNil" -> last.res = 0

\* C9: every method called on the nil aggregate completes without failure and
\* behaves as on an empty aggregate: Len 0, IsEmpty true, Error "", Unwrap and
\* Errors nothing, Is and As false, HasTag false, ErrorOrNil nil.
C9_NilBehavesAsEmpty ==
    OnNil =>
        /\ ~last.panic
        /\ Given = OnEmpty
        /\ last.op \in Listed => ListedResult

\* C9, as the code has it: every method completes on the nil pointer; the nine
\* listed methods give the listed results there, which are those they give on
\* an aggregate without members; Format writes nothing, MarshalJSON gives null
\* and LogValue the nil value, which is not what they give on an aggregate
\* without members for %+v, %q, MarshalJSON and LogValue.
C9_NilSafety ==
    /\ OnNil =>
          /\ ~last.panic
          /\ last.op \in Listed => (ListedResult /\ last.res = OnEmpty)
          /\ last.op = "Format" =>
                /\ last.res = <<>>
                /\ (Given = OnEmpty) <=> (last.args[2] \notin {"+v", "q"})
          /\ last.op = "MarshalJSON" => (last.res.null /\ ~OnEmpty.null)
          /\ last.op = "LogValue" => (last.res.nil /\ ~OnEmpty.nil)
    /\ (/\ last.kind = "probe"
        /\ last.args[1] \in ErrorsRefs(heap)
        /\ heap[last.args[1]].errs = <<>>
        /\ last.op \in Listed) => (~last.panic /\ ListedResult)

\* Is is called on the nil pointer with a target that is a member of an
\* aggregate, on which Is gives true for that target
C9_Witness ==
    /\ OnNil
    /\ last.op = "Is"
    /\ last.res = FALSE
    /\ \E x \in ErrorsRefs(heap) : ErrorsIs(heap, x, last.args[2])

(* ---- values, typed values and tags over causes of another package ---- *)
OpaqueKey == NewTypedKey("n", "int")
OpaqueNames == {"n"}
OpaqueTags == {"t", "u"}
\* the option lists New and Wrap are called with
OpaqueOpts ==
    {<<>>,
     <<Value("k1", IntV(1)), TypedValue(OpaqueKey, IntV(1)), Tag("t")>>,
     <<Value("k1", IntV(2)), Value("k2", IntV(1)), TypedValue(OpaqueKey, IntV(2)), Tag("u")>>}

NewO ==
    /\ CanAlloc
    /\ \E opts \in OpaqueOpts : Alloc("New", <<"m">>, New("m", opts))

WrapO ==
    /\ CanAlloc
    /\ \E cause \in Refs(heap) \cup {0}, opts \in OpaqueOpts :
           Alloc("Wrap", <<cause, "m">>, Wrap(cause, "m", opts))

\* fmt.Errorf("f: %w", cause)
ForeignO ==
    /\ CanAlloc
    /\ \E cause \in Refs(heap) \cup {0} :
           Alloc("Foreign", <<"f", cause>>, ForeignError("f", cause))

ValuesO ==
    /\ Running
    /\ \E x \in ErrorRefs(heap) : Read("Values", <<x>>, ErrorValues(heap, x))

TypedValuesO ==
    /\ Running
    /\ \E x \in ErrorRefs(heap) : Read("TypedValues", <<x>>, ErrorTypedValues(heap, x))

TagsO ==
    /\ Running
    /\ \E x \in ErrorRefs(heap) : Read("Tags", <<x>>, ErrorTags(heap, x))

NextO == NewO \/ WrapO \/ ForeignO \/ ValuesO \/ TypedValuesO \/ TagsO

SpecO == Init /\ [][NextO]_vars

\* the last call is an accessor called on a goerr error whose cause is an
\* error of another package
OnForeignCause ==
    /\ last.op \in {"Values", "TypedValues", "Tags"}
    /\ heap[last.args[1]].cause # 0
    /\ heap[heap[last.args[1]].cause].kind = "Foreign"

\* the entries the receiver of the last call holds itself
LocalEntries ==
    LET x == last.args[1]
    IN CASE last.op = "Values" -> heap[x].values
         [] last.op = "TypedValues" -> heap[x].typedValues
         [] last.op = "Tags" -> heap[x].tags

InitP ==
    /\ \E opts \in OpaqueOpts : heap = <<New("m", opts), ForeignError("f", 1)>>
    /\ last = [kind |-> "step", op |-> "init", args |-> <<>>, res |-> 0,
               panic |-> FALSE, pre |-> <<>>, n |-> 0]

NewP ==
    /\ Running /\ last.n < MaxCalls
    /\ \E opts \in OpaqueOpts : Alloc("New", <<"m">>, New("m", opts))

WrapP ==
    /\ Running /\ last.n < MaxCalls
    /\ \E cause \in Refs(heap) \cup {0}, opts \in OpaqueOpts :
           Alloc("Wrap", <<cause, "m">>, Wrap(cause, "m", opts))

ForeignP ==
    /\ Running /\ last.n < MaxCalls
    /\ \E cause \in Refs(heap) \cup {0} :
           Alloc("Foreign", <<"f", cause>>, ForeignError("f", cause))

ValuesP ==
    /\ Running
    /\ \E err \in Refs(heap) \cup {0} : Read("Values", <<err>>, Values(heap, err))

TagsP ==
    /\ Running
    /\ \E err \in Refs(heap) \cup {0} : Read("Tags", <<err>>, Tags(heap, err))

NextP == NewP \/ WrapP \/ ForeignP \/ ValuesP \/ TagsP

SpecP == InitP /\ [][NextP]_vars

\* the kinds of the nodes of a chain, outermost first
ChainKinds(h, err) == [i \in 1..Len(CauseChain(h, err)) |-> h[CauseChain(h, err)[i]].kind]

\* C11: over a chain in which goerr errors alternate with foreign wrappers
\* that unwrap, Values(err) and Tags(err) give the merge of the values and the
\* tags of every goerr error of the chain.
C11_MergeThroughWrappers ==
    (last.kind = "probe" /\ last.op \in {"Values", "Tags"}) =>
        LET chain == CauseChain(heap, last.args[1])
        IN /\ last.op = "Values" =>
                 \A k \in ValueKeys :
                    LET s == Setters(heap, chain, k)
                    IN /\ (k \in DOMAIN last.res) <=> (s # {})
                       /\ s # {} => last.res[k] = heap[chain[Min(s)]].values[k]
           /\ last.op = "Tags" =>
                 last.res = UNION {heap[chain[i]].tags : i \in 1..Len(chain)}

\* Values of foreign(goerr3(foreign(goerr1))): k1 is goerr3's, k2 is goerr1's
C11_Witness ==
    /\ last.kind = "probe"
    /\ last.op = "Values"
    /\ ChainKinds(heap, last.args[1]) = <<"Foreign", "Error", "Foreign", "Error">>
    /\ heap[CauseChain(heap, last.args[1])[2]].values = [k \in {"k1"} |-> IntV(1)]
    /\ last.res = [k \in {"k1", "k2"} |-> IntV(1)]

(* ---- Wrap, Builder.Wrap and the Wrap method, as calls on the heap ---- *)
\* Wrap that works on its cause: a goerr cause gets the message and the
\* options and is returned itself
WrapCallInPlace(h, cause, msg, options) ==
    IF cause \in ErrorRefs(h)
    THEN [heap |-> [h EXCEPT ![cause] = ApplyOptions([h[cause] EXCEPT !.msg = msg], options)],
          res |-> cause]
    ELSE [heap |-> Append(h, Wrap(cause, msg, options)), res |-> Len(h) + 1]

\* Wrap(cause, msg, options...): the heap it leaves and the pointer it returns
WrapCall(h, cause, msg, options) ==
    [heap |-> Append(h, Wrap(cause, msg, options)), res |-> Len(h) + 1]

\* &Builder{options: options}
NewBuilder(options) == [options |-> options]

\* Builder.Wrap: newError(append(x.options, options...)...), msg and cause set
BuilderWrap(h, b, cause, msg, options) ==
    [heap |-> Append(h, [newError(b.options \o options) EXCEPT !.msg = msg, !.cause = cause]),
     res |-> Len(h) + 1]

\* Error.copy: msg, id and cause assigned, tags, values and typed values
\* cloned, then the options applied to dst; the stack of dst is left
copy(x, dst, options) ==
    ApplyOptions([dst EXCEPT !.msg = x.msg, !.id = x.id, !.cause = x.cause,
                             !.tags = x.tags, !.values = x.values,
                             !.typedValues = x.typedValues], options)

\* the Wrap method with copy assigning x's maps in place of clones of them:
\* what the options write, they write in x's maps too
ErrorWrapShared(h, x, cause, options) ==
    LET err == copy(h[x], newError(<<>>), options)
    IN [heap |-> Append([h EXCEPT ![x].tags = err.tags, ![x].values = err.values,
                                   ![x].typedValues = err.typedValues],
                        [err EXCEPT !.cause = cause]),
        res |-> Len(h) + 1]

\* the Wrap method: err := newError(); x.copy(err, options...); err.cause = cause
ErrorWrap(h, x, cause, options) ==
    LET err == copy(h[x], newError(<<>>), options)
    IN [heap |-> Append(h, [err EXCEPT !.cause = cause]), res |-> Len(h) + 1]

WrapKey == NewTypedKey("k1", "int")
\* the option lists of the calls: the string key k1 and the typed key named
\* k1, each set once, twice or not at all, with tags and IDs
WrapOpts ==
    {<<>>,
     <<Value("k1", IntV(1)), Value("k1", IntV(2)), Tag("t"), Tag("t")>>,
     <<Value("k1", IntV(3)), TypedValue(WrapKey, IntV(1)), ID("X")>>,
     <<TypedValue(WrapKey, IntV(2)), TypedValue(WrapKey, IntV(3)), Tag("u"), ID("Y")>>}
Builders == {NewBuilder(<<>>), NewBuilder(<<Value("k1", IntV(3)), Tag("t")>>)}

NewW ==
    /\ Running /\ last.n < MaxCalls
    /\ \E opts \in WrapOpts :
        /\ heap' = Append(heap, New("m", opts))
        /\ last' = Call("step", "New", <<"m", opts>>, Len(heap) + 1)

WrapW ==
    /\ Running /\ last.n < MaxCalls
    /\ \E cause \in Refs(heap) \cup {0}, opts \in WrapOpts :
        /\ heap' = WrapCall(heap, cause, "w", opts).heap
        /\ last' = Call("step", "Wrap", <<cause, opts>>, WrapCall(heap, cause, "w", opts).res)

BuilderWrapW ==
    /\ Running /\ last.n < MaxCalls
    /\ \E b \in Builders, cause \in Refs(heap) \cup {0}, opts \in WrapOpts :
        /\ heap' = BuilderWrap(heap, b, cause, "b", opts).heap
        /\ last' = Call("step", "Builder.Wrap", <<cause, opts, b>>,
                        BuilderWrap(heap, b, cause, "b", opts).res)

ErrorWrapW ==
    /\ Running /\ last.n < MaxCalls
    /\ \E x \in ErrorRefs(heap), cause \in Refs(heap) \cup {0}, opts \in WrapOpts :
        /\ heap' = ErrorWrap(heap, x, cause, opts).heap
        /\ last' = Call("step", "Error.Wrap", <<cause, opts, x>>,
                        ErrorWrap(heap, x, cause, opts).res)

NextW == NewW \/ WrapW \/ BuilderWrapW \/ ErrorWrapW

SpecW == Init /\ [][NextW]_vars

\* the last call is one of the three wraps
Wrapped == last.op \in {"Wrap", "Builder.Wrap", "Error.Wrap"}

\* C12: no Wrap, Builder.Wrap or Wrap method call that takes an error e as
\* cause changes e: its message, id, stack, cause, local values, typed values
\* and tags, and so its Error(), Values(), TypedValues() and Tags(), are after
\* the call what they were before; and the error returned is a fresh one,
\* distinct from e.
C12_WrapKeepsParent ==
    (Wrapped /\ last.args[1] # 0) =>
        LET e == last.args[1]
        IN /\ heap[e] = last.pre[e]
           /\ ErrorString(heap, e) = ErrorString(last.pre, e)
           /\ e \in ErrorRefs(heap) =>
                 /\ ErrorValues(heap, e) = ErrorValues(last.pre, e)
                 /\ ErrorTypedValues(heap, e) = ErrorTypedValues(last.pre, e)
                 /\ ErrorTags(heap, e) = ErrorTags(last.pre, e)
           /\ last.res # e
           /\ last.res \notin Refs(last.pre)
           /\ last.res \in ErrorRefs(heap)

\* the Wrap method of an error is called with a goerr cause that holds k1, and
\* with options that set k1 to another value: the result holds the new value
C12_Witness ==
    /\ last.op = "Error.Wrap"
    /\ last.args[1] \in ErrorRefs(last.pre)
    /\ "k1" \in DOMAIN last.pre[last.args[1]].values
    /\ "k1" \in DOMAIN heap[last.res].values
    /\ heap[last.res].values["k1"] # last.pre[last.args[1]].values["k1"]
    /\ ErrorValues(heap, last.res)["k1"] # ErrorValues(heap, last.args[1])["k1"]

Max(S) == CHOOSE m \in S : \A n \in S : m >= n

\* the positions of the option list at which an option of the kind sets key
Setting(opts, kind, key) ==
    {i \in 1..Len(opts) : opts[i].opt = kind /\ opts[i].key = key}

\* the positions of the option list at which an ID option stands
SettingID(opts) == {i \in 1..Len(opts) : opts[i].opt = "ID"}

\* the map m with, for every key an option of the kind sets, the value of the
\* last such option
WithOptions(m, opts, kind) ==
    LET set == {opts[i].key : i \in {j \in 1..Len(opts) : opts[j].opt = kind}}
    IN [k \in (DOMAIN m) \cup set |->
           IF Setting(opts, kind, k) # {} THEN opts[Max(Setting(opts, kind, k))].val
           ELSE m[k]]

\* what the claim and the code agree on for the Wrap method x.Wrap(cause,
\* opts...): a new error with x's message, with x's values, typed values and
\* tags and the options on top, with the given cause, and x left as it was
CopySemantics ==
    LET cause == last.args[1]
        opts == last.args[2]
        x == last.args[3]
        r == last.res
    IN /\ r # x
       /\ r \notin Refs(last.pre)
       /\ heap[r].kind = "Error"
       /\ heap[r].msg = last.pre[x].msg
       /\ heap[r].values = WithOptions(last.pre[x].values, opts, "Value")
       /\ heap[r].typedValues = WithOptions(last.pre[x].typedValues, opts, "TypedValue")
       /\ heap[r].tags = last.pre[x].tags \cup
                            {opts[i].key : i \in {j \in 1..Len(opts) : opts[j].opt = "Tag"}}
       /\ heap[r].cause = cause
       /\ heap[x] = last.pre[x]

\* C13: x.Wrap(cause, opts...) returns a new error, distinct from x, with x's
\* message and id, with copies of x's values, typed values and tags and opts
\* applied on top, and with the given cause, not x's; x's values, typed values
\* and tags are unchanged; the result is Is-equal to x when x has an ID.
C13_MemberWrapCopy ==
    last.op = "Error.Wrap" =>
        LET x == last.args[3]
        IN /\ CopySemantics
           /\ heap[last.res].id = last.pre[x].id
           /\ last.pre[x].id # "" => errors_Is(heap, last.res, x)

\* C13, as the code has it: the id is among what the options are applied on
\* top of; the result has the id of the last ID option, x's id when there is
\* none, and is Is-equal to x when x has an ID and the result has the same.
C13_MemberWrapCopyWithID ==
    last.op = "Error.Wrap" =>
        LET x == last.args[3]
            opts == last.args[2]
        IN /\ CopySemantics
           /\ heap[last.res].id = IF SettingID(opts) = {} THEN last.pre[x].id
                                  ELSE opts[Max(SettingID(opts))].key
           /\ (last.pre[x].id # "" /\ heap[last.res].id = last.pre[x].id) =>
                 errors_Is(heap, last.res, x)
           /\ (last.pre[x].id # "" /\ heap[last.res].id # last.pre[x].id) =>
                 ~ErrorIs(heap, last.res, x)

\* x has the ID X, k1 and a cause; x.Wrap(nil, opts) with opts that set k1
\* anew: the result has the ID X, the new k1 and no cause, and x keeps its k1
C13_Witness ==
    /\ last.op = "Error.Wrap"
    /\ LET x == last.args[3]
           r == last.res
       IN /\ last.pre[x].id = "X"
          /\ "k1" \in DOMAIN last.pre[x].values
          /\ last.args[1] = 0
          /\ heap[r].id = "X"
          /\ heap[r].values["k1"] # heap[x].values["k1"]
          /\ heap[x].values["k1"] = last.pre[x].values["k1"]
          /\ errors_Is(heap, r, x)

(* ---- tags: the Tag option, WithTags, Tags() and HasTag ---- *)
\* the slices a loop over the keys of a map can fill: every key once, in any
\* order
KeySlices(keys) ==
    {l \in [1..Cardinality(keys) -> keys] :
        \A i, j \in 1..Cardinality(keys) : l[i] = l[j] => i = j}

\* Tags() that appends the tags of the cause chain and then the local tags to
\* the slice, without the map in between
ErrorTagsSlicesConcat(h, x) ==
    LET cause == h[x].cause
        err == IF cause # 0 THEN Unwrap(h, cause) ELSE 0
        merged == IF err # 0 THEN mergedTags(h, err) ELSE {}
    IN {a \o b : a \in KeySlices(merged), b \in KeySlices(h[x].tags)}

\* Error.Tags, the slice: the values of the keys of the merged map, in the
\* order the loop over the map meets them
ErrorTagsSlices(h, x) == KeySlices(mergedTags(h, x) \cup h[x].tags)

\* Error.WithTags(tags...): the tags added to x's own map
WithTags(h, x, ts) == [h EXCEPT ![x].tags = @ \cup {ts[i] : i \in 1..Len(ts)}]

TagOptLists == {<<>>, <<Tag("t"), Tag("t")>>, <<Tag("u"), Tag("t")>>}
TagLists == {<<"t">>, <<"u", "u">>}
TagValues == {"t", "u"}

NewG ==
    /\ Running /\ last.n <= MaxCalls
    /\ \E opts \in TagOptLists : Alloc("New", <<"m">>, New("m", opts))

WrapG ==
    /\ Running /\ last.n <= MaxCalls
    /\ \E cause \in Refs(heap) \cup {0}, opts \in TagOptLists :
           Alloc("Wrap", <<cause, "m">>, Wrap(cause, "m", opts))

ForeignG ==
    /\ Running /\ last.n <= MaxCalls
    /\ \E cause \in Refs(heap) \cup {0} :
           Alloc("Foreign", <<"f", cause>>, ForeignError("f", cause))

WithTagsG ==
    /\ Running /\ last.n <= MaxCalls
    /\ \E x \in ErrorRefs(heap), ts \in TagLists :
        /\ heap' = WithTags(heap, x, ts)
        /\ last' = Call("step", "WithTags", <<x, ts>>, x)

TagsG ==
    /\ Running
    /\ \E x \in ErrorRefs(heap) :
        \E slice \in ErrorTagsSlices(heap, x) : Read("Tags", <<x>>, slice)

HasTagG ==
    /\ Running
    /\ \E x \in ErrorRefs(heap), t \in TagValues :
           Read("HasTag", <<x, t>>, ErrorHasTag(heap, x, t))

NextG == NewG \/ WrapG \/ ForeignG \/ WithTagsG \/ TagsG \/ HasTagG

SpecG == Init /\ [][NextG]_vars

\* the local tags of the goerr errors of the chain of x
ChainTags(h, x) == UNION {h[CauseChain(h, x)[i]].tags : i \in 1..Len(CauseChain(h, x))}

\* C14: Tags() lists each tag value once and is the union of the local tags
\* of the goerr errors of the chain, however often a tag was added to one
\* error or to several of the chain; HasTag(t) is true exactly when t is in
\* Tags().
C14_TagSet ==
    /\ (last.kind = "probe" /\ last.op = "Tags") =>
          LET x == last.args[1]
          IN /\ \A i, j \in 1..Len(last.res) : last.res[i] = last.res[j] => i = j
             /\ {last.res[i] : i \in 1..Len(last.res)} = ChainTags(heap, x)
             /\ \A t \in TagValues :
                   ErrorHasTag(heap, x, t) <=> (\E i \in 1..Len(last.res) : last.res[i] = t)
    /\ (last.kind = "probe" /\ last.op = "HasTag") =>
          (last.res <=> \A slice \in ErrorTagsSlices(heap, last.args[1]) :
                            \E i \in 1..Len(slice) : slice[i] = last.args[2])

\* the error and its cause both carry t, the cause also u: Tags() has two
\* entries
C14_Witness ==
    /\ last.kind = "probe"
    /\ last.op = "Tags"
    /\ LET chain == CauseChain(heap, last.args[1])
       IN /\ Len(chain) >= 2
          /\ "t" \in heap[chain[1]].tags
          /\ heap[chain[2]].tags = {"t", "u"}
    /\ Len(last.res) = 2

(* ---- a string key and a typed key of the same name ---- *)
\* The string key k1 is always given the value 1, the typed key named k1 the
\* value 2: a value tells through which kind of key it was set.
SameNameOpts == {Value("k1", IntV(1)), TypedValue(WrapKey, IntV(2))}

NewS ==
    /\ Running /\ last.n < MaxCalls
    /\ \E opts \in SeqsUpTo(SameNameOpts, MaxOpts) :
        /\ heap' = Append(heap, New("m", opts))
        /\ last' = Call("step", "New", <<0, opts>>, Len(heap) + 1)

WrapS ==
    /\ Running /\ last.n < MaxCalls
    /\ \E cause \in Refs(heap) \cup {0}, opts \in SeqsUpTo(SameNameOpts, MaxOpts) :
        /\ heap' = Append(heap, Wrap(cause, "m", opts))
        /\ last' = Call("step", "Wrap", <<cause, opts>>, Len(heap) + 1)

ValuesS ==
    /\ Running
    /\ \E x \in ErrorRefs(heap) : Read("Values", <<x>>, ErrorValues(heap, x))

TypedValuesS ==
    /\ Running
    /\ \E x \in ErrorRefs(heap) : Read("TypedValues", <<x>>, ErrorTypedValues(heap, x))

GetTypedValueS ==
    /\ Running
    /\ \E err \in Refs(heap) \cup {0} :
           Read("GetTypedValue", <<err, WrapKey>>, GetTypedValue(heap, err, WrapKey))

NextS == NewS \/ WrapS \/ ValuesS \/ TypedValuesS \/ GetTypedValueS

SpecS == Init /\ [][NextS]_vars

\* an option of the kind is among the options
Given_(opts, kind) == \E i \in 1..Len(opts) : opts[i].opt = kind

\* C15: a string key and a typed key of the same name never collide; setting
\* one, in any order, on the same node or on another node of the chain, leaves
\* the other as it is; Values() never holds an entry set through a typed key
\* only, TypedValues() and GetTypedValue never one set through a string key
\* only.
C15_SeparateNamespaces ==
    /\ (last.kind = "step" /\ last.op \in {"New", "Wrap"}) =>
          LET opts == last.args[2]
              e == heap[last.res]
          IN /\ e.values = IF Given_(opts, "Value")
                           THEN [k \in {"k1"} |-> IntV(1)] ELSE EmptyMap
             /\ e.typedValues = IF Given_(opts, "TypedValue")
                                THEN [k \in {"k1"} |-> IntV(2)] ELSE EmptyMap
             /\ \A r \in Refs(last.pre) : heap[r] = last.pre[r]
    /\ (last.kind = "probe" /\ last.op = "Values") =>
          LET chain == CauseChain(heap, last.args[1])
          IN last.res = IF \E i \in 1..Len(chain) : "k1" \in DOMAIN heap[chain[i]].values
                        THEN [k \in {"k1"} |-> IntV(1)] ELSE EmptyMap
    /\ (last.kind = "probe" /\ last.op = "TypedValues") =>
          LET chain == CauseChain(heap, last.args[1])
          IN last.res = IF \E i \in 1..Len(chain) : "k1" \in DOMAIN heap[chain[i]].typedValues
                        THEN [k \in {"k1"} |-> IntV(2)] ELSE EmptyMap
    /\ (last.kind = "probe" /\ last.op = "GetTypedValue") =>
          LET chain == CauseChain(heap, last.args[1])
          IN last.res = IF \E i \in 1..Len(chain) : "k1" \in DOMAIN heap[chain[i]].typedValues
                        THEN [value |-> IntV(2), ok |-> TRUE]
                        ELSE [value |-> IntV(0), ok |-> FALSE]

\* the outer error has the string key only, its cause the typed key only:
\* GetTypedValue gives the typed value of the cause
C15_Witness ==
    /\ last.op = "GetTypedValue"
    /\ LET chain == CauseChain(heap, last.args[1])
       IN /\ Len(chain) = 2
          /\ heap[chain[1]].values = [k \in {"k1"} |-> IntV(1)]
          /\ heap[chain[1]].typedValues = EmptyMap
          /\ heap[chain[2]].values = EmptyMap
          /\ heap[chain[2]].typedValues = [k \in {"k1"} |-> IntV(2)]
    /\ last.res = [value |-> IntV(2), ok |-> TRUE]

\* C16: New, Wrap and the Wrap method apply their options in argument order:
\* of several options that set one string key, or one typed-key name, the last
\* gives the value stored; the Wrap method applies them after the copy, so
\* they override what was copied.
C16_OptionOrder ==
    /\ last.op \in {"New", "Wrap"} =>
          /\ heap[last.res].values = WithOptions(EmptyMap, last.args[2], "Value")
          /\ heap[last.res].typedValues = WithOptions(EmptyMap, last.args[2], "TypedValue")
    /\ last.op = "Error.Wrap" =>
          LET x == last.pre[last.args[3]]
          IN /\ heap[last.res].values = WithOptions(x.values, last.args[2], "Value")
             /\ heap[last.res].typedValues =
                    WithOptions(x.typedValues, last.args[2], "TypedValue")

\* x holds k1 = 3; x.Wrap(cause, V(k1, 1), V(k1, 2)) holds k1 = 2
C16_Witness ==
    /\ last.op = "Error.Wrap"
    /\ Setting(last.args[2], "Value", "k1") = {1, 2}
    /\ last.args[2][1].val = IntV(1)
    /\ last.args[2][2].val = IntV(2)
    /\ last.pre[last.args[3]].values = [k \in {"k1"} |-> IntV(3)]
    /\ heap[last.res].values = [k \in {"k1"} |-> IntV(2)]

\* C17: Join(errs...) returns the nil aggregate exactly when every entry is
\* nil or there is none; otherwise a new aggregate whose members are the
\* non-nil entries in argument order, an aggregate entry being one member.
C17_Join ==
    last.op = "Join" =>
        LET errs == last.args[1]
            nonNil == {i \in 1..Len(errs) : errs[i] # 0}
        IN /\ (last.res = NilErrors) <=> (nonNil = {})
           /\ \A r \in Refs(last.pre) : heap[r] = last.pre[r]
           /\ last.res = NilErrors => heap = last.pre
           /\ last.res # NilErrors =>
                 /\ last.res \notin Refs(last.pre)
                 /\ heap[last.res].kind = "Errors"
                 /\ Len(heap[last.res].errs) = Cardinality(nonNil)
                 /\ \A k \in 1..Cardinality(nonNil) :
                       \E i \in nonNil :
                          /\ Cardinality({j \in nonNil : j <= i}) = k
                          /\ heap[last.res].errs[k] = errs[i]

\* Join(nil, Join(e1, e2)): one member, the aggregate
C17_Witness ==
    /\ last.op = "Join"
    /\ Len(last.args[1]) = 2
    /\ last.args[1][1] = 0
    /\ last.args[1][2] \in ErrorsRefs(last.pre)
    /\ Len(last.pre[last.args[1][2]].errs) = 2
    /\ heap[last.res].errs = <<last.args[1][2]>>

(* ---- Error() of aggregates over two errors with different messages ---- *)
\* Join takes any allocated error or nil; Append takes a base and the two
\* leaf errors or nil; then Error() is called on an aggregate.
Leaves == {1, 2}

AppendE ==
    /\ Running /\ last.n < MaxCalls
    /\ \E base \in Receivers(heap), errs \in SeqsUpTo(Leaves \cup {0}, MaxErrs) :
        IF Len(errs) = 0
        THEN /\ UNCHANGED heap
             /\ last' = Call("step", "Append", <<base, errs>>, base)
        ELSE LET b == IF base = NilErrors THEN Len(heap) + 1 ELSE base
                 h0 == IF base = NilErrors THEN Append(heap, NewErrors(<<>>)) ELSE heap
                 r == AppendLoop(h0, b, errs, 1)
             IN /\ heap' = r.heap
                /\ last' = [Call("step", "Append", <<base, errs>>, b)
                               EXCEPT !.panic = r.panic]

ErrorE ==
    /\ Running
    /\ \E x \in Receivers(heap) : Read("Error", <<x>>, ErrorsError(heap, x))

JoinE == Running /\ JoinA

NextE == JoinE \/ AppendE \/ ErrorE

SpecE == InitA /\ [][NextE]_vars

RECURSIVE Lines(_, _, _)
\* the Error() strings of the members from position i on, a newline between
\* two of them
Lines(h, errs, i) ==
    IF i > Len(errs) THEN ""
    ELSE IF i = Len(errs) THEN ErrorString(h, errs[i])
    ELSE ErrorString(h, errs[i]) \o "\n" \o Lines(h, errs, i + 1)

\* C18: Error() of an aggregate is "" for zero members, the member's Error()
\* for one member, and otherwise the members' Error() strings joined by a
\* newline in the order in which Join and Append received them.
C18_AggregateMessage ==
    /\ (last.kind = "probe" /\ last.op = "Error" /\ last.args[1] # NilErrors) =>
          LET errs == heap[last.args[1]].errs
          IN /\ Len(errs) = 0 => last.res = ""
             /\ Len(errs) = 1 => last.res = ErrorString(heap, errs[1])
             /\ Len(errs) > 1 => last.res = Lines(heap, errs, 1)
    /\ (last.kind = "step" /\ last.op = "Append" /\ ~last.panic /\ last.res # NilErrors) =>
          ErrorsError(heap, last.res) =
              Lines(heap, MembersOf(last.pre, last.args[1]) \o
                          SelectSeq(last.args[2], LAMBDA e : e # 0), 1)
    /\ (last.kind = "step" /\ last.op = "Join" /\ last.res # NilErrors) =>
          ErrorsError(heap, last.res) =
              Lines(heap, SelectSeq(last.args[1], LAMBDA e : e # 0), 1)

\* Error() of Append(Join(g), f): g, a newline, f
C18_Witness ==
    /\ last.kind = "probe"
    /\ last.op = "Error"
    /\ last.args[1] # NilErrors
    /\ heap[last.args[1]].errs = <<2, 1>>
    /\ last.res = "g\nf"

(* ---- HasTag of aggregates whose members wrap and are wrapped ---- *)
\* The run starts with e := fmt.Errorf("f") and Join(e) allocated; New, Wrap,
\* fmt.Errorf and Join build on them, then HasTag is called on an aggregate.
InitH ==
    /\ heap = <<ForeignError("f", 0), NewErrors(<<1>>)>>
    /\ last = [kind |-> "step", op |-> "init", args |-> <<>>, res |-> 0,
               panic |-> FALSE, pre |-> <<>>, n |-> 0]

HasTagOpts == {<<>>, <<Tag("t")>>}

NewH ==
    /\ Running /\ last.n < MaxCalls
    /\ \E opts \in HasTagOpts : Alloc("New", <<"m">>, New("m", opts))

WrapH ==
    /\ Running /\ last.n < MaxCalls
    /\ \E cause \in Refs(heap) \cup {0}, opts \in HasTagOpts :
           Alloc("Wrap", <<cause, "m">>, Wrap(cause, "m", opts))

ForeignH ==
    /\ Running /\ last.n < MaxCalls
    /\ \E cause \in Refs(heap) :
           Alloc("Foreign", <<"f", cause>>, ForeignError("f", cause))

JoinH ==
    /\ Running /\ last.n < MaxCalls
    /\ \E errs \in SeqsUpTo(Refs(heap) \cup {0}, MaxErrs) :
        /\ last' = Call("step", "Join", <<errs>>, Join(heap, errs).res)
        /\ heap' = Join(heap, errs).heap

HasTagH ==
    /\ Running
    /\ \E x \in Receivers(heap), tag \in NilSafetyTags :
           Read("HasTag", <<x, tag>>, ErrorsHasTag(heap, x, tag))

NextH == NewH \/ WrapH \/ ForeignH \/ JoinH \/ HasTagH

SpecH == InitH /\ [][NextH]_vars

RECURSIVE Carries(_, _, _)
\* the error m, queried as a single error, carries the tag: a goerr error by
\* its HasTag method, a foreign wrapper by what it wraps, an aggregate by its
\* members
Carries(h, m, tag) ==
    IF m = 0 \/ m = NilErrors THEN FALSE
    ELSE CASE h[m].kind = "Error" -> ErrorHasTag(h, m, tag)
           [] h[m].kind = "Foreign" -> Carries(h, h[m].cause, tag)
           [] h[m].kind = "Errors" ->
                \E i \in 1..Len(h[m].errs) : Carries(h, h[m].errs[i], tag)

\* C19: errs.HasTag(t) is true exactly when at least one member carries t,
\* each member queried like a single error, through foreign wrappers around
\* goerr errors and through members that are aggregates.
C19_AggregateHasTag ==
    (last.kind = "probe" /\ last.op = "HasTag" /\ last.args[1] # NilErrors) =>
        (last.res <=> \E i \in 1..Len(heap[last.args[1]].errs) :
                          Carries(heap, heap[last.args[1]].errs[i], last.args[2]))

\* no goerr error of the heap has an aggregate beneath it in its cause chain
NoAggregateBeneath(h) ==
    \A r \in ErrorRefs(h) :
        \A i \in 1..Len(CauseChain(h, r)) : h[CauseChain(h, r)[i]].kind # "Errors"

\* the same, for the heaps in which no goerr error wraps an aggregate
C19_HasTagUnwrapped ==
    NoAggregateBeneath(heap) => C19_AggregateHasTag

(* ---- Is of aggregates over members with IDs, wrappers and nesting ---- *)
\* The run starts with two goerr errors of different IDs and a fmt.Errorf
\* wrapper around the first; New, Wrap, fmt.Errorf and Join build on them,
\* then Is is called on an aggregate.
InitJ ==
    /\ heap = <<New("a", <<ID("X")>>), New("b", <<ID("Y")>>), ForeignError("f", 1)>>
    /\ last = [kind |-> "step", op |-> "init", args |-> <<>>, res |-> 0,
               panic |-> FALSE, pre |-> <<>>, n |-> 0]

IsOpts == {<<>>, <<ID("X")>>}

\* the entries given to Join: up to MaxErrs different errors, oldest first
IsEntries(h) ==
    {errs \in SeqsUpTo(Refs(h), MaxErrs) :
        \A i, j \in 1..Len(errs) : i < j => errs[i] < errs[j]}

NewJ ==
    /\ Running /\ last.n < MaxCalls
    /\ \E opts \in IsOpts : Alloc("New", <<"m">>, New("m", opts))

WrapJ ==
    /\ Running /\ last.n < MaxCalls
    /\ \E cause \in Refs(heap), opts \in IsOpts :
           Alloc("Wrap", <<cause, "m">>, Wrap(cause, "m", opts))

ForeignJ ==
    /\ Running /\ last.n < MaxCalls
    /\ \E cause \in Refs(heap) \cup {0} :
           Alloc("Foreign", <<"f", cause>>, ForeignError("f", cause))

JoinJ ==
    /\ Running /\ last.n < MaxCalls
    /\ \E errs \in IsEntries(heap) :
        /\ last' = Call("step", "Join", <<errs>>, Join(heap, errs).res)
        /\ heap' = Join(heap, errs).heap

IsJ ==
    /\ Running
    /\ \E x \in Receivers(heap), target \in AnyErr(heap) :
           Read("Is", <<x, target>>, ErrorsIs(heap, x, target))

NextJ == NewJ \/ WrapJ \/ ForeignJ \/ JoinJ \/ IsJ

SpecJ == InitJ /\ [][NextJ]_vars

\* the errors an error of the set S unwraps to in one step
Unwrapped(h, S) ==
    {h[r].cause : r \in {r \in S : h[r].kind # "Errors"}} \cup
    UNION {{h[r].errs[i] : i \in 1..Len(h[r].errs)} : r \in {r \in S : h[r].kind = "Errors"}}

RECURSIVE UnwrapChain(_, _)
\* the errors reached from those of S by unwrapping, S included
UnwrapChain(h, S) ==
    LET N == S \cup (Unwrapped(h, S \ {NilErrors}) \ {0})
    IN IF N = S THEN S ELSE UnwrapChain(h, N)

\* the ID target is compared by: that of the goerr error errors.As finds in it
TargetID(h, target) ==
    IF Unwrap(h, target) = 0 THEN "" ELSE h[Unwrap(h, target)].id

\* the member, or an error in its unwrap chain, is the same instance as target
\* or is a goerr error sharing target's non-empty ID
Matches(h, m, target) ==
    \E e \in UnwrapChain(h, {m}) :
        \/ e = target
        \/ /\ e # NilErrors
           /\ h[e].kind = "Error"
           /\ h[e].id # ""
           /\ h[e].id = TargetID(h, target)

\* C20: errs.Is(target) is true exactly when at least one member matches
\* target: the member, or an error in its unwrap chain, is the same instance
\* as target or is a goerr error sharing target's non-empty ID. It is false
\* for a target no member matches, and for the nil aggregate.
C20_AggregateIs ==
    (last.kind = "probe" /\ last.op = "Is") =>
        LET x == last.args[1]
            target == last.args[2]
        IN last.res <=>
              /\ x # NilErrors
              /\ \E i \in 1..Len(heap[x].errs) : Matches(heap, heap[x].errs[i], target)

\* an aggregate whose only member is a foreign wrapper matches, through the
\* wrapper and by ID, a goerr error that is not in the member's chain; and
\* the same aggregate does not match the error of another ID
C20_Witness ==
    /\ last.kind = "probe" /\ last.op = "Is"
    /\ last.args[1] # NilErrors
    /\ Len(heap[last.args[1]].errs) = 1
    /\ heap[heap[last.args[1]].errs[1]].kind = "Foreign"
    /\ last.args[2] \in ErrorRefs(heap)
    /\ last.args[2] \notin UnwrapChain(heap, {heap[last.args[1]].errs[1]})
    /\ last.res = TRUE
    /\ ~ErrorsIs(heap, last.args[1], 2)

(* ---- the graph New, Wrap, member Wrap, Join and Append build ---- *)
\* The run starts with e := New("m") and x := Join(e) allocated.
InitC ==
    /\ heap = <<New("m", <<>>), NewErrors(<<1>>)>>
    /\ last = [kind |-> "step", op |-> "init", args |-> <<>>, res |-> 0,
               panic |-> FALSE, pre |-> <<>>, n |-> 0]

NewC ==
    /\ Running /\ last.n < MaxCalls
    /\ Alloc("New", <<"m">>, New("m", <<>>))

WrapC ==
    /\ Running /\ last.n < MaxCalls
    /\ \E cause \in Refs(heap) \cup {0} :
        /\ heap' = WrapCall(heap, cause, "w", <<>>).heap
        /\ last' = Call("step", "Wrap", <<cause>>, WrapCall(heap, cause, "w", <<>>).res)

ErrorWrapC ==
    /\ Running /\ last.n < MaxCalls
    /\ \E x \in ErrorRefs(heap), cause \in Refs(heap) \cup {0} :
        /\ heap' = ErrorWrap(heap, x, cause, <<>>).heap
        /\ last' = Call("step", "Error.Wrap", <<cause, x>>,
                        ErrorWrap(heap, x, cause, <<>>).res)

JoinC ==
    /\ Running /\ last.n < MaxCalls
    /\ \E errs \in IsEntries(heap) :
        /\ last' = Call("step", "Join", <<errs>>, Join(heap, errs).res)
        /\ heap' = Join(heap, errs).heap

AppendC ==
    /\ Running /\ last.n < MaxCalls
    /\ \E base \in Receivers(heap), errs \in IsEntries(heap) :
        IF Len(errs) = 0
        THEN /\ UNCHANGED heap
             /\ last' = Call("step", "Append", <<base, errs>>, base)
        ELSE LET b == IF base = NilErrors THEN Len(heap) + 1 ELSE base
                 h0 == IF base = NilErrors THEN Append(heap, NewErrors(<<>>)) ELSE heap
                 r == AppendLoop(h0, b, errs, 1)
             IN /\ heap' = r.heap
                /\ last' = [Call("step", "Append", <<base, errs>>, IF r.panic THEN 0 ELSE b)
                               EXCEPT !.panic = r.panic]

NextC == NewC \/ WrapC \/ ErrorWrapC \/ JoinC \/ AppendC

SpecC == InitC /\ [][NextC]_vars

\* no error of h is reached from itself by cause links and member links
Acyclic(h) ==
    \A r \in Refs(h) :
        r \notin UnwrapChain(h, Unwrapped(h, {r}) \ {0, NilErrors})

\* C21: after any sequence of New, Wrap, member Wrap, Join and Append no
\* error is reachable from itself by following cause links and aggregate
\* member links, so that Error() and the merge accessors terminate.
C21_NoCycles == Acyclic(heap)

\* every call that allocates the node it links keeps the graph free of
\* cycles: all but Append onto an existing aggregate
C21_FreshNodesKeepAcyclic ==
    [][(Acyclic(heap) /\ ~(last'.op = "Append" /\ last'.args[1] # NilErrors))
           => Acyclic(heap')]_vars

(* ---- the reads, with the maps they allocate and the writes they make ---- *)
\* A map or slice variable of a read is a reference: owner = 0 for one the
\* call made itself (m holds its contents), owner = r for the map that is the
\* field of the error r.
Fresh(field) == [owner |-> 0, m |-> IF field = "tags" THEN {} ELSE EmptyMap]

\* the contents of the map a reference denotes
Deref(h, ref, field) == IF ref.owner = 0 THEN ref.m ELSE h[ref.owner][field]

\* for key, value := range src { merged[key] = value }: the writes go to the
\* map merged denotes
StoreAll(h, merged, field, src) ==
    LET put(m) == IF field = "tags" THEN m \cup src ELSE Overlay(m, src)
    IN IF merged.owner = 0
       THEN [heap |-> h, ref |-> [merged EXCEPT !.m = put(@)]]
       ELSE [heap |-> [h EXCEPT ![merged.owner][field] = put(@)], ref |-> merged]

RECURSIVE mergedInAliased(_, _, _)
\* the merge started from the error's own map in place of make(...)
mergedInAliased(h, x, field) ==
    LET cause == h[x].cause
        err == IF cause # 0 THEN Unwrap(h, cause) ELSE 0
        r == IF err # 0 THEN mergedInAliased(h, err, field)
             ELSE [heap |-> h, ref |-> [owner |-> x, m |-> Fresh(field).m]]
    IN StoreAll(r.heap, r.ref, field, r.heap[x][field])

RECURSIVE mergedIn(_, _, _)
\* mergedValues, mergedTypedValues and mergedTags (the same code over the
\* fields values, typedValues and tags): the heap left and the map returned
mergedIn(h, x, field) ==
    LET cause == h[x].cause
        err == IF cause # 0 THEN Unwrap(h, cause) ELSE 0
        r == IF err # 0 THEN mergedIn(h, err, field)
             ELSE [heap |-> h, ref |-> Fresh(field)]
    IN StoreAll(r.heap, r.ref, field, r.heap[x][field])

\* Values() that hands out the local map of an error without cause
ErrorValuesInLocal(h, x) ==
    IF h[x].cause = 0 THEN [heap |-> h, ref |-> [owner |-> x, m |-> EmptyMap]]
    ELSE mergedIn(h, x, "values")

\* Error.Values
ErrorValuesIn(h, x) == mergedIn(h, x, "values")

\* Error.TypedValues
ErrorTypedValuesIn(h, x) == mergedIn(h, x, "typedValues")

\* Error.Tags: the tags of x stored once more into the merged map, then the
\* slice made from it
ErrorTagsIn(h, x) ==
    LET r == mergedIn(h, x, "tags")
        s == StoreAll(r.heap, r.ref, "tags", r.heap[x].tags)
    IN [heap |-> s.heap, ref |-> [owner |-> 0, m |-> Deref(s.heap, s.ref, "tags")]]

\* Error.HasTag
ErrorHasTagIn(h, x, tag) ==
    LET r == mergedIn(h, x, "tags")
    IN [heap |-> r.heap, res |-> tag \in Deref(r.heap, r.ref, "tags")]

RECURSIVE PrintableIn(_, _)
\* Error.Printable
PrintableIn(h, x) ==
    LET v == ErrorValuesIn(h, x)
        tv == ErrorTypedValuesIn(v.heap, x)
        t == ErrorTagsIn(tv.heap, x)
        e == [Message |-> t.heap[x].msg, ID |-> t.heap[x].id, StackTrace |-> t.heap[x].st,
              Values |-> Deref(v.heap, v.ref, "values"),
              TypedValues |-> Deref(tv.heap, tv.ref, "typedValues"),
              Tags |-> t.ref.m]
        xcause == t.heap[x].cause
        cause == Unwrap(t.heap, xcause)
    IN IF cause # 0
       THEN LET c == PrintableIn(t.heap, cause)
            IN [heap |-> c.heap, res |-> <<e, c.res>>]
       ELSE IF xcause # 0
       THEN [heap |-> t.heap, res |-> <<e, ErrorString(t.heap, xcause)>>]
       ELSE [heap |-> t.heap, res |-> <<e>>]

\* The run starts with a constructed chain: a goerr error, a fmt.Errorf
\* wrapper around it and a goerr error wrapping that; only reads follow, and
\* changes a caller makes to the results it was handed.
InitR ==
    /\ \E o1 \in OpaqueOpts, o2 \in OpaqueOpts :
           heap = <<New("a", o1), ForeignError("f", 1), Wrap(2, "b", o2)>>
    /\ last = [kind |-> "step", op |-> "init", args |-> <<>>, res |-> 0,
               panic |-> FALSE, pre |-> <<>>, n |-> 0]

ErrorR ==
    /\ Running /\ last.n <= MaxCalls
    /\ \E x \in ErrorRefs(heap) :
        /\ last' = Call("step", "Error", <<x>>, ErrorError(heap, x))
        /\ UNCHANGED heap

ValuesR ==
    /\ Running /\ last.n <= MaxCalls
    /\ \E x \in ErrorRefs(heap) :
        /\ last' = Call("step", "Values", <<x>>, ErrorValuesIn(heap, x).ref)
        /\ heap' = ErrorValuesIn(heap, x).heap

TypedValuesR ==
    /\ Running /\ last.n <= MaxCalls
    /\ \E x \in ErrorRefs(heap) :
        /\ last' = Call("step", "TypedValues", <<x>>, ErrorTypedValuesIn(heap, x).ref)
        /\ heap' = ErrorTypedValuesIn(heap, x).heap

TagsR ==
    /\ Running /\ last.n <= MaxCalls
    /\ \E x \in ErrorRefs(heap) :
        /\ last' = Call("step", "Tags", <<x>>, ErrorTagsIn(heap, x).ref)
        /\ heap' = ErrorTagsIn(heap, x).heap

HasTagR ==
    /\ Running /\ last.n <= MaxCalls
    /\ \E x \in ErrorRefs(heap), tag \in OpaqueTags :
        /\ last' = Call("step", "HasTag", <<x, tag>>, ErrorHasTagIn(heap, x, tag).res)
        /\ heap' = ErrorHasTagIn(heap, x, tag).heap

GetTypedValueR ==
    /\ Running /\ last.n <= MaxCalls
    /\ \E x \in ErrorRefs(heap) :
        /\ last' = Call("step", "GetTypedValue", <<x, OpaqueKey>>,
                        GetTypedValue(heap, x, OpaqueKey))
        /\ UNCHANGED heap

IsR ==
    /\ Running /\ last.n <= MaxCalls
    /\ \E x \in ErrorRefs(heap), target \in AnyErr(heap) :
        /\ last' = Call("step", "Is", <<x, target>>, ErrorIs(heap, x, target))
        /\ UNCHANGED heap

PrintableR ==
    /\ Running /\ last.n <= MaxCalls
    /\ \E x \in ErrorRefs(heap) :
        /\ last' = Call("step", "Printable", <<x>>, PrintableIn(heap, x).res)
        /\ heap' = PrintableIn(heap, x).heap

\* the field an accessor reads
FieldOf(op) ==
    CASE op = "Values" -> "values"
      [] op = "TypedValues" -> "typedValues"
      [] op = "Tags" -> "tags"

\* what a caller can make of a result: an entry inserted, overwritten or deleted
Changes(field, m) ==
    IF field = "tags" THEN {m \cup {"z"}} \cup {m \ {t} : t \in m}
    ELSE {MapSet(m, k, IntV(9)) : k \in (DOMAIN m) \cup {"z"}}
         \cup {[k \in (DOMAIN m) \ {d} |-> m[k]] : d \in DOMAIN m}

\* the caller changes the result the last accessor call returned
ChangeResultR ==
    /\ Running /\ last.n <= MaxCalls
    /\ last.op \in {"Values", "TypedValues", "Tags"}
    /\ \E c \in Changes(FieldOf(last.op), Deref(heap, last.res, FieldOf(last.op))) :
        /\ last' = Call("step", "change", <<last.args[1], FieldOf(last.op)>>,
                        [last.res EXCEPT !.m = c])
        /\ heap' = IF last.res.owner = 0 THEN heap
                   ELSE [heap EXCEPT ![last.res.owner][FieldOf(last.op)] = c]

NextR ==
    \/ ErrorR \/ ValuesR \/ TypedValuesR \/ TagsR \/ HasTagR
    \/ GetTypedValueR \/ IsR \/ PrintableR \/ ChangeResultR

SpecR == InitR /\ [][NextR]_vars

Reads == {"Error", "Values", "TypedValues", "Tags", "HasTag", "GetTypedValue", "Is", "Printable"}

C27_ResultsArePrivate ==
    /\ last.op \in {"Values", "TypedValues", "Tags"} =>
          /\ last.res.owner = 0
          /\ last.res.m = CASE last.op = "Values" -> ErrorValues(last.pre, last.args[1])
                            [] last.op = "TypedValues" -> ErrorTypedValues(last.pre, last.args[1])
                            [] last.op = "Tags" -> ErrorTags(last.pre, last.args[1])
    /\ last.op = "change" => heap = last.pre

\* the caller changed the map Values() returned for an error whose own map
\* and whose merged map hold entries: what it holds differs from what
\* Values() gives
C27_Witness ==
    /\ last.op = "change" /\ last.args[2] = "values"
    /\ heap[last.args[1]].values # EmptyMap
    /\ heap[last.args[1]].cause # 0
    /\ last.res.m # ErrorValues(heap, last.args[1])

(* ---- Unstack and UnstackN ---- *)
\* trim(stack, n): the stack without its first n frames, those closest to
\* the capture point; empty when n reaches past the end
unstack(st, n) == IF n >= Len(st) THEN <<>> ELSE SubSeq(st, n + 1, Len(st))

\* UnstackN that trims one frame whatever n is
ErrorUnstackNOne(h, x, n) ==
    [heap |-> [h EXCEPT ![x].st = unstack(@, 1)], res |-> x]

\* Error.UnstackN: x.st = unstack(x.st, n); return x
ErrorUnstackN(h, x, n) ==
    [heap |-> [h EXCEPT ![x].st = unstack(@, n)], res |-> x]

\* Error.Unstack: x.st = unstack(x.st, 1); return x
ErrorUnstack(h, x) ==
    [heap |-> [h EXCEPT ![x].st = unstack(@, 1)], res |-> x]

\* the numbers of frames asked to be trimmed: none, some, all, more than all
TrimCounts == 0..(Len(StackFrames) + 1)

UnstackU ==
    /\ Running /\ last.n <= MaxCalls
    /\ \E x \in ErrorRefs(heap) :
        /\ last' = Call("step", "Unstack", <<x>>, ErrorUnstack(heap, x).res)
        /\ heap' = ErrorUnstack(heap, x).heap

UnstackNU ==
    /\ Running /\ last.n <= MaxCalls
    /\ \E x \in ErrorRefs(heap), n \in TrimCounts :
        /\ last' = Call("step", "UnstackN", <<x, n>>, ErrorUnstackN(heap, x, n).res)
        /\ heap' = ErrorUnstackN(heap, x, n).heap

NextU == NewW \/ WrapW \/ UnstackU \/ UnstackNU

SpecU == Init /\ [][NextU]_vars

\* the last L - n frames of st, none when n >= L
Trimmed(st, n) == [i \in 1..Max({0, Len(st) - n}) |-> st[i + n]]

\* C23: UnstackN(n) on an error whose stack has L frames leaves exactly
\* max(0, L - n) frames, the n frames closest to the capture point removed
\* (none left when n >= L); Unstack() is UnstackN(1); both change the
\* receiver in place, return the same instance and change nothing but the
\* stack.
C23_StackTrim ==
    last.op \in {"Unstack", "UnstackN"} =>
        LET x == last.args[1]
            n == IF last.op = "Unstack" THEN 1 ELSE last.args[2]
            L == Len(last.pre[x].st)
        IN /\ Len(heap[x].st) = Max({0, L - n})
           /\ heap[x].st = Trimmed(last.pre[x].st, n)
           /\ last.res = x
           /\ heap = [last.pre EXCEPT ![x].st = heap[x].st]
           /\ ~last.panic

\* a second trim, by more frames than the first trim left, on an error that
\* has a cause and values
C23_Witness ==
    /\ last.op = "UnstackN"
    /\ Len(last.pre[last.args[1]].st) \in 1..(Len(StackFrames) - 1)
    /\ last.args[2] > Len(last.pre[last.args[1]].st)
    /\ heap[last.args[1]].st = <<>>
    /\ heap[last.args[1]].values # EmptyMap

(* ---- Builder, with its options as a slice over a backing array ---- *)
\* An array object holds cap slots, of which elems are written; a builder
\* holds the slice options as (arr, len), arr = 0 for the nil slice, and, for
\* the claims, made: the option list it was created with.
BuilderRefs(h) == {r \in Refs(h) : h[r].kind = "Builder"}

\* the capacities the allocator gives to slices of one-word elements
SizeClasses == {1, 2, 3, 4, 6, 8, 10, 12, 14, 16}

\* the capacity append gives the array it allocates: the old one doubled, or
\* what is needed when that is more, rounded up to a size class
GrowCap(oldcap, needed) ==
    LET newcap == IF needed > 2 * oldcap THEN needed ELSE 2 * oldcap
    IN Min({c \in SizeClasses : c >= newcap})

\* the elements of the slice (arr, len)
SliceElems(h, arr, len) == IF arr = 0 THEN <<>> ELSE SubSeq(h[arr].elems, 1, len)

\* append(s, items...) for the slice s = (arr, len): in place when the
\* capacity suffices, into a new array otherwise
SliceAppend(h, arr, len, items) ==
    LET cap == IF arr = 0 THEN 0 ELSE h[arr].cap
        needed == len + Len(items)
    IN IF Len(items) = 0 THEN [heap |-> h, arr |-> arr, len |-> len]
       ELSE IF needed <= cap
       THEN [heap |-> [h EXCEPT ![arr].elems =
                          SubSeq(@, 1, len) \o items \o SubSeq(@, needed + 1, Len(@))],
             arr |-> arr, len |-> needed]
       ELSE [heap |-> Append(h, [kind |-> "Array", cap |-> GrowCap(cap, needed),
                                 elems |-> SliceElems(h, arr, len) \o items]),
             arr |-> Len(h) + 1, len |-> needed]

\* NewBuilder(options...): the variadic arguments in an array of their own
NewBuilderIn(h, options) ==
    IF Len(options) = 0
    THEN [heap |-> Append(h, [kind |-> "Builder", arr |-> 0, len |-> 0, made |-> <<>>]),
          res |-> Len(h) + 1]
    ELSE [heap |-> h \o <<[kind |-> "Array", cap |-> Len(options), elems |-> options],
                          [kind |-> "Builder", arr |-> Len(h) + 1, len |-> Len(options),
                           made |-> options]>>,
          res |-> Len(h) + 2]

\* Builder.With: options: x.options[:], then append
BuilderWith(h, x, options) ==
    LET s == SliceAppend(h, h[x].arr, h[x].len, options)
    IN [heap |-> Append(s.heap, [kind |-> "Builder", arr |-> s.arr, len |-> s.len,
                                 made |-> h[x].made \o options]),
        res |-> Len(s.heap) + 1]

\* Builder.New: newError(append(x.options, options...)...), msg set
BuilderNew(h, x, msg, options) ==
    LET s == SliceAppend(h, h[x].arr, h[x].len, options)
    IN [heap |-> Append(s.heap, New(msg, SliceElems(s.heap, s.arr, s.len))),
        res |-> Len(s.heap) + 1]

\* the options the calls pass, each setting a key of its own
BuilderOpt(i) == Value(CASE i = 1 -> "k1" [] i = 2 -> "k2" [] i = 3 -> "k3"
                         [] i = 4 -> "k4" [] i = 5 -> "k5", IntV(i))

\* The run starts with b := NewBuilder(o1, o2).With(o3) allocated.
InitB ==
    /\ heap = BuilderWith(NewBuilderIn(<<>>, <<BuilderOpt(1), BuilderOpt(2)>>).heap, 2,
                          <<BuilderOpt(3)>>).heap
    /\ last = [kind |-> "step", op |-> "init", args |-> <<>>, res |-> 0,
               panic |-> FALSE, pre |-> <<>>, n |-> 0]

NewBuilderB ==
    /\ Running /\ last.n <= MaxCalls
    /\ \E options \in {<<>>, <<BuilderOpt(1)>>} :
        /\ last' = Call("step", "NewBuilder", <<options>>, NewBuilderIn(heap, options).res)
        /\ heap' = NewBuilderIn(heap, options).heap

WithB ==
    /\ Running /\ last.n <= MaxCalls
    /\ \E x \in BuilderRefs(heap), i \in {4, 5} :
        /\ last' = Call("step", "With", <<x, <<BuilderOpt(i)>>>>,
                        BuilderWith(heap, x, <<BuilderOpt(i)>>).res)
        /\ heap' = BuilderWith(heap, x, <<BuilderOpt(i)>>).heap

BuilderNewB ==
    /\ Running /\ last.n <= MaxCalls
    /\ \E x \in BuilderRefs(heap) :
        /\ last' = Call("step", "Builder.New", <<x, <<>>>>, BuilderNew(heap, x, "m", <<>>).res)
        /\ heap' = BuilderNew(heap, x, "m", <<>>).heap

NextB == NewBuilderB \/ WithB \/ BuilderNewB

SpecB == InitB /\ [][NextB]_vars

\* C24: b.With(opts...) returns a new Builder whose option list is b's
\* followed by opts and leaves unchanged the option list of b and of every
\* builder derived earlier from b; after any sequence of With calls each
\* builder produces errors that carry exactly the options it was created with.
C24_WithCopies ==
    /\ \A b \in BuilderRefs(heap) : SliceElems(heap, heap[b].arr, heap[b].len) = heap[b].made
    /\ last.op = "With" =>
           heap[last.res].made = last.pre[last.args[1]].made \o last.args[2]
    /\ last.op = "Builder.New" =>
           heap[last.res] = New("m", last.pre[last.args[1]].made)

\* With leaves the option list of its receiver as it was
C24_WithKeepsReceiver ==
    last.op = "With" =>
        SliceElems(heap, heap[last.args[1]].arr, heap[last.args[1]].len)
            = SliceElems(last.pre, last.pre[last.args[1]].arr, last.pre[last.args[1]].len)

(* ---- GetTypedValue against TypedValues ---- *)
\* TypedValues(err): the merged typed values of Unwrap(err), nil without one
TypedValues(h, err) ==
    IF Unwrap(h, err) # 0 THEN ErrorTypedValues(h, Unwrap(h, err)) ELSE EmptyMap

\* C25: GetTypedValue(err, k) returns (v, true) exactly when the merged map
\* TypedValues(err) has an entry under k's name whose value is of k's type,
\* and then v is that entry's value; otherwise it returns (zero, false).
C25_GetAgreesWithMerged ==
    last.op = "GetTypedValue" =>
        LET key == last.args[2]
            m == TypedValues(heap, last.args[1])
        IN IF key.name \in DOMAIN m /\ OfType(m[key.name], key.T)
           THEN last.res = [value |-> m[key.name], ok |-> TRUE]
           ELSE last.res = [value |-> Zero(key.T), ok |-> FALSE]

\* the lookup through a foreign wrapper, on a chain whose outer error holds
\* an int under the name and whose base holds a string: the int key finds
\* the outer entry
C25_Witness ==
    /\ last.op = "GetTypedValue"
    /\ last.args[2] = NewTypedKey("n", "int")
    /\ last.args[1] # 0
    /\ heap[last.args[1]].kind = "Error"
    /\ heap[last.args[1]].cause # 0
    /\ heap[heap[last.args[1]].cause].kind = "Foreign"
    /\ LET chain == GoerrChain(heap, last.args[1])
       IN /\ Len(chain) = 2
          /\ heap[chain[1]].typedValues = MapSet(EmptyMap, "n", IntV(1))
          /\ heap[chain[2]].typedValues = MapSet(EmptyMap, "n", StrV(1))
    /\ last.res = [value |-> IntV(1), ok |-> TRUE]

(* ---- the package function HasTag on every error ---- *)
HasTagK ==
    /\ Running
    /\ \E err \in AnyErr(heap), tag \in NilSafetyTags :
           Read("goerr.HasTag", <<err, tag>>, HasTag(heap, err, tag))

NextK == NewH \/ WrapH \/ ForeignH \/ JoinH \/ HasTagK

SpecK == InitH /\ [][NextK]_vars

\* C26: for every error err and tag t, when the outermost goerr error of
\* err's chain carries t, that is when Unwrap(err).HasTag(t) is true, then
\* HasTag(err, t) is true, also when that goerr error wraps an aggregate.
C26_HasTagCoversOuter ==
    (last.op = "goerr.HasTag"
        /\ Unwrap(heap, last.args[1]) # 0
        /\ ErrorHasTag(heap, Unwrap(heap, last.args[1]), last.args[2]))
    => last.res = TRUE

\* the same, for the errors in whose chain errors.As finds no aggregate
C26_HasTagCoversOuterNoAggregate ==
    (last.op = "goerr.HasTag" /\ AsErrors(heap, last.args[1]) = NilErrors)
    => (last.res <=> /\ Unwrap(heap, last.args[1]) # 0
                     /\ ErrorHasTag(heap, Unwrap(heap, last.args[1]), last.args[2]))

\* C28: Is is an equivalence on goerr error instances used directly as
\* receiver and target: a.Is(a) holds, a.Is(b) equals b.Is(a), and a.Is(b)
\* with b.Is(c) implies a.Is(c).
C28_IsEquivalence ==
    last.op = "Is" =>
        LET a == last.args[1]
            b == last.args[2]
        IN /\ (a = b) => last.res = TRUE
           /\ last.res = ErrorIs(heap, b, a)
           /\ \A c \in ErrorRefs(heap) :
                  (last.res = TRUE /\ ErrorIs(heap, b, c)) => ErrorIs(heap, a, c)

\* a matches b, another instance, and b matches a third instance c
C28_Witness ==
    /\ last.op = "Is"
    /\ last.args[1] # last.args[2]
    /\ last.res = TRUE
    /\ \E c \in ErrorRefs(heap) \ {last.args[1], last.args[2]} :
           ErrorIs(heap, last.args[2], c)

(* ---- Append with nil aggregates among its entries ---- *)
AppendY ==
    /\ Running /\ last.n < MaxCalls
    /\ \E base \in Receivers(heap), errs \in SeqsUpTo(Leaves \cup {0, NilErrors}, MaxErrs) :
        IF Len(errs) = 0
        THEN /\ UNCHANGED heap
             /\ last' = Call("step", "Append", <<base, errs>>, base)
        ELSE LET b == IF base = NilErrors THEN Len(heap) + 1 ELSE base
                 h0 == IF base = NilErrors THEN Append(heap, NewErrors(<<>>)) ELSE heap
                 r == AppendLoop(h0, b, errs, 1)
             IN /\ heap' = r.heap
                /\ last' = [Call("step", "Append", <<base, errs>>, IF r.panic THEN 0 ELSE b)
                               EXCEPT !.panic = r.panic]

NextY == JoinE \/ AppendY

SpecY == InitA /\ [][NextY]_vars

\* the members base has before the call
MembersBefore(h, base) == IF base = NilErrors THEN <<>> ELSE h[base].errs

\* C29: when an entry of errs is a nil aggregate reference, Append(base,
\* errs...) completes without failure and adds no member for that entry,
\* exactly as for a plain nil entry.
C29_AppendNilAggregate ==
    (last.op = "Append" /\ \E i \in 1..Len(last.args[2]) : last.args[2][i] = NilErrors) =>
        /\ ~last.panic
        /\ last.res # 0
        /\ heap[last.res].errs =
               MembersBefore(last.pre, last.args[1])
                   \o SelectSeq(last.args[2], LAMBDA e : e # 0 /\ e # NilErrors)

\* Append whose entries hold no nil aggregate completes
C29_AppendWithoutNilAggregate ==
    (last.op = "Append" /\ \A i \in 1..Len(last.args[2]) : last.args[2][i] # NilErrors) =>
        ~last.panic

(* ---- calls of Builder.New running concurrently ---- *)
\* A call in progress is a frame on the heap: the builder x and the options
\* it was called with, pc (the statement it is at), the slice append returned
\* and the error it returned. The statement of New is in two steps, the
\* append and the newError that reads the slice; steps of different calls
\* interleave.
CallRefs(h) == {r \in Refs(h) : h[r].kind = "Call"}

\* go x.New("m", options...)
GoNewD ==
    /\ Running /\ Cardinality(CallRefs(heap)) < MaxCalls
    /\ \E x \in BuilderRefs(heap), i \in {4, 5} :
        /\ heap' = Append(heap, [kind |-> "Call", x |-> x, options |-> <<BuilderOpt(i)>>,
                                 pc |-> "append", arr |-> 0, len |-> 0, res |-> 0])
        /\ last' = Call("step", "go New", <<x, <<BuilderOpt(i)>>>>, Len(heap) + 1)

\* append(x.options, options...) of the call c
AppendD ==
    /\ Running
    /\ \E c \in CallRefs(heap) :
        /\ heap[c].pc = "append"
        /\ LET s == SliceAppend(heap, heap[heap[c].x].arr, heap[heap[c].x].len,
                                heap[c].options)
           IN heap' = [s.heap EXCEPT ![c].pc = "newError", ![c].arr = s.arr,
                                     ![c].len = s.len]
        /\ last' = Call("step", "append", <<c>>, 0)

\* newError(slice...) of the call c, msg set, and the return
NewErrorD ==
    /\ Running
    /\ \E c \in CallRefs(heap) :
        /\ heap[c].pc = "newError"
        /\ heap' = Append([heap EXCEPT ![c].pc = "done", ![c].res = Len(heap) + 1],
                          New("m", SliceElems(heap, heap[c].arr, heap[c].len)))
        /\ last' = Call("step", "newError", <<c>>, Len(heap) + 1)

NextD == GoNewD \/ AppendD \/ NewErrorD

SpecD == InitB /\ [][NextD]_vars

\* C30: when two calls of New with per-call options run concurrently on the
\* same Builder, a builder obtained through With included, each resulting
\* error carries exactly the builder's options followed by its own call's
\* options, and never an option passed to the other call.
C30_ConcurrentNew ==
    \A c \in CallRefs(heap) :
        heap[c].pc = "done" =>
            heap[heap[c].res] = New("m", heap[heap[c].x].made \o heap[c].options)

\* the same, for the calls on a builder whose options fill their array
C30_ConcurrentNewFullArray ==
    \A c \in CallRefs(heap) :
        (heap[c].pc = "done" /\ heap[heap[heap[c].x].arr].cap = heap[heap[c].x].len) =>
            heap[heap[c].res] = New("m", heap[heap[c].x].made \o heap[c].options)

====
